---------------------------- MODULE Spec2Model ----------------------------
(***************************************************************************)
(* Distributed Ford-Fulkerson maximum flow (Project/src/project.cpp).      *)
(*                                                                         *)
(* mpi_size ranks, each running num_threads threads of run_algorithm.      *)
(* Thread 0 of a rank is the message router of step 2, the other threads   *)
(* are labelling workers.  Per pass: step 1 (reset, label the source),     *)
(* step 2 (labelling, token-ring termination detection), step 3            *)
(* (backtracking along the back-pointers, flow update).                    *)
(*                                                                         *)
(* Vertices are named by their global id 0..N-1; the local index of a      *)
(* vertex on its owning rank is identified with its global id, (local_id)-1*)
(* is the integer -1.  MPI_Ssend is a rendezvous: the sender posts its     *)
(* message in out_msg and continues only after a receive has taken it.     *)
(***************************************************************************)
EXTENDS Integers, Sequences, FiniteSets, TLC

VARIABLES
    cfg,                \* the input: graph, partition, mpi_size, num_threads
    flow,               \* out_edge.flow, per vertex and out-edge index
    labels,             \* labels[v]: value, prev_node, prev_rank_loc, prev_vert_index
    edge_queue,         \* per rank
    h_lock,             \* per rank: tid holding the head lock, -1 when free
    working_threads, my_color, have_token, token_color, queue_is_empty,
    sink_found, step_3_tid, pass, algorithm_complete,      \* per rank globals
    pc,                 \* per rank and thread: position in run_algorithm
    entry,              \* per thread: the popped edge_entry
    bt_idx, sink_value, \* per thread: step 3 locals
    sink_founds_needed, wait_for_source_found,
    msg,                \* per thread: the message last received
    out_msg,            \* per thread: the message posted by MPI_Ssend, not yet matched
    coll,               \* per rank: the MPI collective the rank is in
    total_flow,         \* calc_max_flow's value at rank 0, -1 before it returns
    flow_at_pass_end,   \* observation: the flow out of the source when the
                        \* source's rank last finished a pass, 0 before that
    earlier_result,     \* observation: the value an earlier complete run on
                        \* the same graph reported, -1 when there is none
    flow_before_step3,  \* observation: the flows when the MPI barrier before
                        \* step 3 last opened
    sent_down           \* observation, per rank: a labelling message went to
                        \* a lower rank after the rank's last token of the pass

vars == << cfg, flow, labels, edge_queue, h_lock, working_threads, my_color,
           have_token, token_color, queue_is_empty, sink_found, step_3_tid,
           pass, algorithm_complete, pc, entry, bt_idx, sink_value,
           sink_founds_needed, wait_for_source_found, msg, out_msg, coll,
           total_flow, flow_at_pass_end, earlier_result, flow_before_step3,
           sent_down >>

\* the observations of the passes and of the runs
past == << flow_at_pass_end, earlier_result, flow_before_step3 >>

observed == << past, sent_down >>

-----------------------------------------------------------------------------
(* Program constants *)

\* numeric_limits<int>::max(), the label of the source
IntMax == 2147483647

\* (local_id)-1 / "not on this rank"
NoIdx == -1

\* EMPTY_LABEL: value 0 is "no label" (set_label's compare-and-swap compares with 0)
EMPTY_LABEL == [value |-> 0, prev_node |-> NoIdx, prev_rank_loc |-> NoIdx,
                prev_vert_index |-> NoIdx]

NoMsg == [tag |-> "NONE"]

Abs(x) == IF x < 0 THEN -x ELSE x
Min2(a, b) == IF a < b THEN a ELSE b

-----------------------------------------------------------------------------
(* The input and the partition *)

Edge(d, c) == [dest |-> d, capacity |-> c]

\* graphs in the input format: line v+1 lists the out-edges of vertex v
SingleEdge   == << <<Edge(1, 2)>>, <<>> >>
SelfLoop     == << <<Edge(0, 100), Edge(1, 3)>>, <<>> >>
SelfLoopTight == << <<Edge(0, 1), Edge(1, 2)>>, <<>> >>
Chain3       == << <<Edge(1, 1)>>, <<Edge(2, 1)>>, <<>> >>
Repeated     == << <<Edge(1, 1), Edge(1, 1)>>, <<Edge(2, 2)>>, <<>> >>
Disconnected == << <<Edge(1, 10)>>, <<>>, <<>> >>
Uneven       == << <<Edge(1, 2), Edge(1, 1)>>, <<>> >>
BackEdge     == << <<Edge(1, 2)>>, <<Edge(0, 1)>> >>
\* the first path found is 0-1-3-5; the second one takes the flow of 1->3 back
PushBack     == << <<Edge(1, 1), Edge(2, 1)>>, <<Edge(3, 1), Edge(4, 1)>>,
                   <<Edge(3, 1)>>, <<Edge(5, 1)>>, <<Edge(5, 1)>>, <<>> >>
\* the chain 0->1->2->3->4->5, every capacity 7
Chain6       == << <<Edge(1, 7)>>, <<Edge(2, 7)>>, <<Edge(3, 7)>>,
                   <<Edge(4, 7)>>, <<Edge(5, 7)>>, <<>> >>
\* two outer paths 0-1-3 and 0-2-3 joined by the edge 1->2 of capacity 1
Trap         == << <<Edge(1, 1000), Edge(2, 1000)>>,
                   <<Edge(2, 1), Edge(3, 1000)>>, <<Edge(3, 1000)>>, <<>> >>

Config(g, o, p, t) == [out |-> g, owner |-> o, mpi_size |-> p, num_threads |-> t]

Configs ==
    { Config(SingleEdge,    <<0, 0>>,    1, 2),
      Config(SelfLoop,      <<0, 0>>,    1, 2),
      Config(SelfLoopTight, <<0, 1>>,    2, 2),
      Config(Chain3,        <<0, 1, 1>>, 2, 2),
      Config(Chain3,        <<1, 0, 1>>, 2, 2),
      Config(Repeated,      <<0, 0, 0>>, 1, 2),
      Config(Repeated,      <<0, 1, 1>>, 2, 2),
      Config(Disconnected,  <<0, 1, 0>>, 2, 2),
      Config(Uneven,        <<0, 0>>,    1, 2),
      Config(BackEdge,      <<0, 1>>,    2, 2),
      Config(PushBack,      <<0, 0, 0, 0, 0, 0>>, 1, 2),
      Config(PushBack,      <<0, 0, 0, 1, 0, 0>>, 2, 2),
      Config(SingleEdge,    <<0, 0>>,    1, 1) }

N == Len(cfg.out)
Vertices == 0 .. (N - 1)
Ranks == 0 .. (cfg.mpi_size - 1)
Threads == 0 .. (cfg.num_threads - 1)
source_id == 0
sink_id == N - 1

\* vertices[v].out_edges
OutEdges(v) == cfg.out[v + 1]
\* global_id_to_rank
RankOf(v) == cfg.owner[v + 1]
\* lookup_global_id on rank r
lookup_global_id(r, id) ==
    IF id \in Vertices /\ RankOf(id) = r THEN id ELSE NoIdx

\* read_file: for each vertex in order, for each of its pairs in order, one
\* in_edge is appended to the destination's in_edges
RECURSIVE InEdgesFrom(_, _, _)
InEdgesFrom(v, u, i) ==
    IF u >= N THEN << >>
    ELSE IF i > Len(OutEdges(u)) THEN InEdgesFrom(v, u + 1, 1)
    ELSE IF OutEdges(u)[i].dest = v
         THEN << [dest |-> u] >> \o InEdgesFrom(v, u, i + 1)
         ELSE InEdgesFrom(v, u, i + 1)
InEdges(v) == InEdgesFrom(v, 0, 1)

-----------------------------------------------------------------------------
(* Message tags *)

SET_TO_LABEL       == "SET_TO_LABEL"
COMPUTE_FROM_LABEL == "COMPUTE_FROM_LABEL"
SINK_FOUND         == "SINK_FOUND"
UPDATE_FLOW        == "UPDATE_FLOW"
SOURCE_FOUND       == "SOURCE_FOUND"
TOKEN_WHITE        == "TOKEN_WHITE"
TOKEN_RED          == "TOKEN_RED"
CHECK_TERMINATION  == "CHECK_TERMINATION"

\* a message as posted by MPI_Ssend: the envelope (tag, dst) and message_data
Message(tag, dst, sn, rn, value, p) ==
    [tag |-> tag, dst |-> dst, senders_node |-> sn, receivers_node |-> rn,
     value |-> value, pass |-> p]
\* a tag-only message (NULL buffer, count 0)
Marker(tag, dst) == Message(tag, dst, 0, 0, 0, 0)

NextRank(r) == (r + 1) % cfg.mpi_size
PrevRank(r) == (r - 1 + cfg.mpi_size) % cfg.mpi_size

\* a send of thread (s, u) that a receive on rank r can match
Pending(s, u, r) == out_msg[s][u] # NoMsg /\ out_msg[s][u].dst = r
AnyPending(r) == \E s \in Ranks, u \in Threads : Pending(s, u, r)
\* what the receive returns: message_data and MPI_Status
Received(s, u) ==
    [tag |-> out_msg[s][u].tag, src |-> s,
     senders_node |-> out_msg[s][u].senders_node,
     receivers_node |-> out_msg[s][u].receivers_node,
     value |-> out_msg[s][u].value, pass |-> out_msg[s][u].pass]
NoRecv == [tag |-> "NONE", src |-> NoIdx, senders_node |-> 0,
           receivers_node |-> 0, value |-> 0, pass |-> 0]

-----------------------------------------------------------------------------
(* insert_edges and set_label *)

\* insert_edges skips an edge whose far end is local and already labelled
AlreadyLabelled(r, L, far) == RankOf(far) = r /\ L[far].value # 0
\* insert_edges skips the edge we came from
CameFrom(L, v, far) == far = L[v].prev_node

EdgeEntry(v, outgoing, i) ==
    [vertex_index |-> v, is_outgoing |-> outgoing, edge_index |-> i]

RECURSIVE OutFragment(_, _, _, _)
OutFragment(r, L, v, i) ==
    IF i > Len(OutEdges(v)) THEN << >>
    ELSE (IF AlreadyLabelled(r, L, OutEdges(v)[i].dest)
             \/ CameFrom(L, v, OutEdges(v)[i].dest)
          THEN << >> ELSE << EdgeEntry(v, TRUE, i) >>)
         \o OutFragment(r, L, v, i + 1)

RECURSIVE InFragment(_, _, _, _)
InFragment(r, L, v, i) ==
    IF i > Len(InEdges(v)) THEN << >>
    ELSE (IF AlreadyLabelled(r, L, InEdges(v)[i].dest)
             \/ CameFrom(L, v, InEdges(v)[i].dest)
          THEN << >> ELSE << EdgeEntry(v, FALSE, i) >>)
         \o InFragment(r, L, v, i + 1)

\* the fragment insert_edges merges into edge_queue, given the labels L
insert_edges(r, L, v) == OutFragment(r, L, v, 1) \o InFragment(r, L, v, 1)

\* a set_label that writes whatever the label holds
LabelCasBlind(L, curr) == TRUE

\* __sync_bool_compare_and_swap(&labels[curr_idx].value, 0, value)
LabelCas(L, curr) == L[curr].value = 0

\* a set_label that writes the vertex itself as its predecessor
SetLabelLabelsSelf(L, prev_node, prev_rank, prev_idx, curr, value) ==
    IF LabelCas(L, curr)
    THEN [L EXCEPT ![curr] = [value |-> value, prev_node |-> curr,
                              prev_rank_loc |-> RankOf(curr),
                              prev_vert_index |-> curr]]
    ELSE L

\* the labels after set_label
SetLabelLabels(L, prev_node, prev_rank, prev_idx, curr, value) ==
    IF LabelCas(L, curr)
    THEN [L EXCEPT ![curr] = [value |-> value, prev_node |-> prev_node,
                              prev_rank_loc |-> prev_rank,
                              prev_vert_index |-> prev_idx]]
    ELSE L

\* a set_label that enqueues the edges whether or not it wrote the label
SetLabelQueueAlways(r, Q, L, prev_node, prev_rank, prev_idx, curr, value) ==
    IF curr # sink_id THEN Q \o insert_edges(r, L, curr) ELSE Q

\* the edge queue of rank r after set_label
SetLabelQueue(r, Q, L, prev_node, prev_rank, prev_idx, curr, value) ==
    IF LabelCas(L, curr) /\ curr # sink_id
    THEN Q \o insert_edges(r,
                  SetLabelLabels(L, prev_node, prev_rank, prev_idx, curr, value),
                  curr)
    ELSE Q

\* set_label's return value: the sink was labelled by this call
SetLabelFound(L, curr) == LabelCas(L, curr) /\ curr = sink_id

\* a claim that overwrites the one already made
ClaimStep3Last(old, tid) == tid

\* __sync_val_compare_and_swap(&step_3_tid, -1, tid): the new value
ClaimStep3(old, tid) == IF old = -1 THEN tid ELSE old

\* a flow update with the sign reversed
FlowTake(F, u, dest, delta) ==
    [F EXCEPT ![u] = [i \in DOMAIN F[u] |->
        IF OutEdges(u)[i].dest = dest THEN F[u][i] - delta ELSE F[u][i]]]

\* the out-edges of u with every edge to dest shifted by delta
FlowAdd(F, u, dest, delta) ==
    [F EXCEPT ![u] = [i \in DOMAIN F[u] |->
        IF OutEdges(u)[i].dest = dest THEN F[u][i] + delta ELSE F[u][i]]]

\* flow of the first out-edge of u to dest, or none when there is no such edge
RECURSIVE FirstFlowTo(_, _, _, _, _)
FirstFlowTo(F, u, dest, i, none) ==
    IF i > Len(OutEdges(u)) THEN none
    ELSE IF OutEdges(u)[i].dest = dest THEN F[u][i]
    ELSE FirstFlowTo(F, u, dest, i + 1, none)

-----------------------------------------------------------------------------
(* Initial state: calc_max_flow has spawned the threads *)

NoEntry == EdgeEntry(0, FALSE, 0)
NoColl == [kind |-> "none", val |-> 0]

\* a value per rank, and per thread of every rank, for the configuration c
PerRank(c, x) == [r \in 0 .. (c.mpi_size - 1) |-> x]
PerThread(c, x) == PerRank(c, [t \in 0 .. (c.num_threads - 1) |-> x])
\* out_edge.flow as read_file leaves it
NoFlow(c) == [v \in 0 .. (Len(c.out) - 1) |->
                 [i \in 1 .. Len(c.out[v + 1]) |-> 0]]
\* labels = vector<struct label>(vertices.size(), EMPTY_LABEL)
NoLabels(c) == [v \in 0 .. (Len(c.out) - 1) |-> EMPTY_LABEL]

\* the state in which the threads start, for an input drawn from the set S
Start(S) ==
    /\ cfg \in S
    /\ flow = NoFlow(cfg)
    /\ labels = NoLabels(cfg)
    /\ edge_queue = PerRank(cfg, << >>)
    /\ h_lock = PerRank(cfg, -1)
    /\ working_threads = PerRank(cfg, 0)
    /\ my_color = PerRank(cfg, TOKEN_WHITE)
    /\ have_token = PerRank(cfg, FALSE)
    /\ token_color = PerRank(cfg, TOKEN_WHITE)
    /\ queue_is_empty = PerRank(cfg, FALSE)
    /\ sink_found = PerRank(cfg, FALSE)
    /\ step_3_tid = PerRank(cfg, -1)
    /\ pass = PerRank(cfg, 1)
    /\ algorithm_complete = PerRank(cfg, FALSE)
    /\ pc = PerThread(cfg, "top")
    /\ entry = PerThread(cfg, NoEntry)
    /\ bt_idx = PerThread(cfg, NoIdx)
    /\ sink_value = PerThread(cfg, 0)
    /\ sink_founds_needed = PerThread(cfg, 0)
    /\ wait_for_source_found = PerThread(cfg, FALSE)
    /\ msg = PerThread(cfg, NoRecv)
    /\ out_msg = PerThread(cfg, NoMsg)
    /\ coll = PerRank(cfg, NoColl)
    /\ total_flow = -1
    /\ flow_at_pass_end = 0
    /\ earlier_result = -1
    /\ flow_before_step3 = NoFlow(cfg)
    /\ sent_down = PerRank(cfg, FALSE)

Init == Start(Configs)

-----------------------------------------------------------------------------
(* Helpers for the per-thread variables *)

At(r, t, loc) == pc[r][t] = loc
Goto(r, t, loc) == pc' = [pc EXCEPT ![r][t] = loc]
Post(r, t, m) == out_msg' = [out_msg EXCEPT ![r][t] = m]
SendDone(r, t) == out_msg[r][t] = NoMsg

\* while (!algorithm_complete) followed by the barrier at the top of the pass
TopOfPass(r) == IF algorithm_complete[r] THEN "done" ELSE "bar1"
\* while (!sink_found) of the router, evaluated with the value sf of sink_found
RouterLoop(sf) == IF sf THEN "bar3" ELSE "r_recv"

globals == << working_threads, my_color, have_token, token_color,
              queue_is_empty, sink_found, step_3_tid, pass,
              algorithm_complete >>
step3_locals == << bt_idx, sink_value, sink_founds_needed,
                   wait_for_source_found >>

-----------------------------------------------------------------------------
(* The pass loop, the intra-process barrier and step 1 *)

\* while (!algorithm_complete) { barrier.wait(); ...
LoopTop(r, t) ==
    /\ At(r, t, "top")
    /\ Goto(r, t, TopOfPass(r))
    /\ UNCHANGED << cfg, observed, flow, labels, edge_queue, h_lock, globals, entry,
                    step3_locals, msg, out_msg, coll, total_flow >>

AtBarrier(r, t) == pc[r][t] \in {"bar1", "bar2", "bar3"}

\* where a thread continues when the barrier opens
AfterBarrier(r, t) ==
    IF pc[r][t] = "bar1" THEN (IF t = 0 THEN "step1" ELSE "bar2")
    ELSE IF pc[r][t] = "bar2"
         THEN (IF t = 0 THEN RouterLoop(sink_found[r]) ELSE "w_top")
    ELSE "s3_gate"

\* Barrier::wait(): the barrier opens when all num_threads threads of the
\* rank wait at it.  A thread other than 0 that leaves the first barrier
\* declares its step 3 locals and waits at the second.
BarrierRelease(r) ==
    /\ \A t \in Threads : AtBarrier(r, t)
    /\ pc' = [pc EXCEPT ![r] = [t \in Threads |-> AfterBarrier(r, t)]]
    /\ bt_idx' = [bt_idx EXCEPT ![r] = [t \in Threads |->
          IF pc[r][t] = "bar1" /\ t # 0 THEN NoIdx ELSE bt_idx[r][t]]]
    /\ sink_value' = [sink_value EXCEPT ![r] = [t \in Threads |->
          IF pc[r][t] = "bar1" /\ t # 0 THEN 0 ELSE sink_value[r][t]]]
    /\ UNCHANGED << cfg, observed, flow, labels, edge_queue, h_lock, globals, entry,
                    sink_founds_needed, wait_for_source_found, msg, out_msg,
                    coll, total_flow >>

\* a step 1 that keeps the labels of the pass before
WipedLabelsKept(r) == labels

\* fill(labels.begin(), labels.end(), EMPTY_LABEL) on rank r
WipedLabels(r) ==
    [v \in Vertices |-> IF RankOf(v) = r THEN EMPTY_LABEL ELSE labels[v]]

\* Step 1, thread 0: wipe the labels, reset the globals, empty the queue,
\* label the source
Step1(r) ==
    /\ At(r, 0, "step1")
    /\ working_threads' = [working_threads EXCEPT ![r] = 0]
    /\ my_color' = [my_color EXCEPT ![r] = TOKEN_WHITE]
    /\ have_token' = [have_token EXCEPT ![r] = (r = 0)]
    /\ token_color' = [token_color EXCEPT ![r] = TOKEN_WHITE]
    /\ queue_is_empty' = [queue_is_empty EXCEPT ![r] = FALSE]
    /\ sink_found' = [sink_found EXCEPT ![r] = FALSE]
    /\ step_3_tid' = [step_3_tid EXCEPT ![r] = -1]
    /\ IF lookup_global_id(r, source_id) # NoIdx
       THEN /\ labels' = SetLabelLabels(WipedLabels(r), source_id, r,
                                        source_id, source_id, IntMax)
            /\ edge_queue' = [edge_queue EXCEPT ![r] =
                   SetLabelQueue(r, << >>, WipedLabels(r), source_id, r,
                                 source_id, source_id, IntMax)]
       ELSE /\ labels' = WipedLabels(r)
            /\ edge_queue' = [edge_queue EXCEPT ![r] = << >>]
    /\ bt_idx' = [bt_idx EXCEPT ![r][0] = NoIdx]
    /\ sink_value' = [sink_value EXCEPT ![r][0] = 0]
    /\ sent_down' = [sent_down EXCEPT ![r] = FALSE]
    /\ Goto(r, 0, "bar2")
    /\ UNCHANGED << cfg, past, flow, h_lock, pass, algorithm_complete, entry,
                    sink_founds_needed, wait_for_source_found, msg, out_msg,
                    coll, total_flow >>

-----------------------------------------------------------------------------
(* Step 2, thread 0: the message router *)

\* MPI_Recv(MPI_ANY_SOURCE, MPI_ANY_TAG) of thread (r, t) matching the send
\* of thread (s, u)
Match(r, t, s, u) ==
    /\ Pending(s, u, r)
    /\ msg' = [msg EXCEPT ![r][t] = Received(s, u)]

R_Recv(r) ==
    /\ At(r, 0, "r_recv")
    /\ \E s \in Ranks, u \in Threads :
          /\ Match(r, 0, s, u)
          /\ Post(s, u, NoMsg)
    /\ Goto(r, 0, "r_inc")
    /\ UNCHANGED << cfg, observed, flow, labels, edge_queue, h_lock, globals, entry,
                    step3_locals, coll, total_flow >>

\* __sync_fetch_and_add(&working_threads, 1)
R_Inc(r) ==
    /\ At(r, 0, "r_inc")
    /\ working_threads' = [working_threads EXCEPT ![r] = @ + 1]
    /\ Goto(r, 0, "r_handle")
    /\ UNCHANGED << cfg, observed, flow, labels, edge_queue, h_lock, my_color,
                    have_token, token_color, queue_is_empty, sink_found,
                    step_3_tid, pass, algorithm_complete, entry,
                    step3_locals, msg, out_msg, coll, total_flow >>

\* the router's error branches: the receiver's node is not on this rank
WrongRank(r, m) == lookup_global_id(r, m.receivers_node) = NoIdx
\* a router that takes every message for one of the current pass
OldMessageNever(r, m) == FALSE

\* ... or the message is of another pass
OldMessage(r, m) == m.pass # pass[r]

\* __sync_fetch_and_sub(&working_threads, 1); continue;
DropMessage(r) ==
    /\ working_threads' = [working_threads EXCEPT ![r] = @ - 1]
    /\ Goto(r, 0, RouterLoop(sink_found[r]))
    /\ UNCHANGED << flow, labels, edge_queue, my_color, have_token,
                    token_color, queue_is_empty, sink_found, step_3_tid,
                    step3_locals, out_msg, coll >>

\* set_label(msg.senders_node, stat.MPI_SOURCE, -1, vert_idx, value, tid)
\* in the router, and what follows it when the sink was labelled
RouterSetLabel(r, m, value) ==
    LET v == m.receivers_node
        found == SetLabelFound(labels, v)
    IN  /\ labels' = SetLabelLabels(labels, m.senders_node, m.src, NoIdx, v, value)
        /\ edge_queue' = [edge_queue EXCEPT ![r] =
               SetLabelQueue(r, @, labels, m.senders_node, m.src, NoIdx, v, value)]
        /\ bt_idx' = IF found THEN [bt_idx EXCEPT ![r][0] = v] ELSE bt_idx
        /\ step_3_tid' = IF found
                         THEN [step_3_tid EXCEPT ![r] = ClaimStep3(@, 0)]
                         ELSE step_3_tid
        /\ sink_found' = IF found THEN [sink_found EXCEPT ![r] = TRUE]
                         ELSE sink_found
        /\ working_threads' = [working_threads EXCEPT ![r] = @ - 1]
        /\ Goto(r, 0, RouterLoop(found \/ sink_found[r]))
        /\ UNCHANGED << flow, my_color, have_token, token_color,
                        queue_is_empty, sink_value, sink_founds_needed,
                        wait_for_source_found, out_msg, coll >>

\* case SET_TO_LABEL
HandleSetToLabel(r, m) ==
    IF WrongRank(r, m) \/ OldMessage(r, m)
    THEN DropMessage(r)
    ELSE RouterSetLabel(r, m, m.value)

\* case COMPUTE_FROM_LABEL: the flow of the edge to the sender's node
ComputeFlow(r, m) == FirstFlowTo(flow, m.receivers_node, m.senders_node, 1, 0)

HandleComputeFromLabel(r, m) ==
    IF WrongRank(r, m) \/ OldMessage(r, m)
    THEN DropMessage(r)
    ELSE IF ComputeFlow(r, m) <= 0
         THEN DropMessage(r)
         ELSE RouterSetLabel(r, m, -Min2(Abs(m.value), ComputeFlow(r, m)))

\* case SINK_FOUND
HandleSinkFound(r) ==
    /\ sink_found' = [sink_found EXCEPT ![r] = TRUE]
    /\ IF cfg.mpi_size > 1
       THEN /\ step_3_tid' = [step_3_tid EXCEPT ![r] = ClaimStep3(@, 0)]
            /\ working_threads' = [working_threads EXCEPT ![r] = @ - 1]
            /\ Goto(r, 0, "bar3")
       ELSE /\ Goto(r, 0, "r_flush")
            /\ UNCHANGED << step_3_tid, working_threads >>
    /\ UNCHANGED << flow, labels, edge_queue, my_color, have_token,
                    token_color, queue_is_empty, step3_locals, out_msg, coll >>

\* int empty = queue_is_empty ? 0 : 1; MPI_Allreduce(&empty, ...)
EnterAllreduce(r) ==
    coll' = [coll EXCEPT ![r] = [kind |-> "allreduce",
                                 val |-> IF queue_is_empty[r] THEN 0 ELSE 1]]

\* a rank 0 that starts the termination check on a token of either colour
HandleTokenAnyColour(r, m) ==
    /\ IF r = 0
       THEN /\ token_color' = [token_color EXCEPT ![r] = m.tag]
            /\ IF cfg.mpi_size > 1
               THEN /\ Post(r, 0, Marker(CHECK_TERMINATION, 1))
                    /\ Goto(r, 0, "r_ct")
                    /\ UNCHANGED coll
               ELSE /\ EnterAllreduce(r)
                    /\ Goto(r, 0, "r_ar")
                    /\ UNCHANGED out_msg
            /\ UNCHANGED << have_token, working_threads >>
       ELSE /\ token_color' = [token_color EXCEPT ![r] = m.tag]
            /\ have_token' = [have_token EXCEPT ![r] = TRUE]
            /\ working_threads' = [working_threads EXCEPT ![r] = @ - 1]
            /\ Goto(r, 0, RouterLoop(sink_found[r]))
            /\ UNCHANGED << out_msg, coll >>
    /\ UNCHANGED << flow, labels, edge_queue, my_color, queue_is_empty,
                    sink_found, step_3_tid, step3_locals >>

\* case TOKEN_WHITE, TOKEN_RED
HandleToken(r, m) ==
    /\ IF r = 0 /\ m.tag = TOKEN_WHITE
       THEN /\ token_color' = [token_color EXCEPT ![r] = m.tag]
            /\ IF cfg.mpi_size > 1
               THEN /\ Post(r, 0, Marker(CHECK_TERMINATION, 1))
                    /\ Goto(r, 0, "r_ct")
                    /\ UNCHANGED coll
               ELSE /\ EnterAllreduce(r)
                    /\ Goto(r, 0, "r_ar")
                    /\ UNCHANGED out_msg
            /\ UNCHANGED << have_token, working_threads >>
       ELSE /\ token_color' = [token_color EXCEPT ![r] =
                                 IF r = 0 THEN TOKEN_WHITE ELSE m.tag]
            /\ have_token' = [have_token EXCEPT ![r] = TRUE]
            /\ working_threads' = [working_threads EXCEPT ![r] = @ - 1]
            /\ Goto(r, 0, RouterLoop(sink_found[r]))
            /\ UNCHANGED << out_msg, coll >>
    /\ UNCHANGED << flow, labels, edge_queue, my_color, queue_is_empty,
                    sink_found, step_3_tid, step3_locals >>

\* case CHECK_TERMINATION
HandleCheckTermination(r) ==
    /\ EnterAllreduce(r)
    /\ Goto(r, 0, "r_ar")
    /\ UNCHANGED << flow, labels, edge_queue, working_threads, my_color,
                    have_token, token_color, queue_is_empty, sink_found,
                    step_3_tid, step3_locals, out_msg >>

\* default: ERROR("got invalid tag in step 2")
HandleInvalid(r) ==
    /\ working_threads' = [working_threads EXCEPT ![r] = @ - 1]
    /\ Goto(r, 0, RouterLoop(sink_found[r]))
    /\ UNCHANGED << flow, labels, edge_queue, my_color, have_token,
                    token_color, queue_is_empty, sink_found, step_3_tid,
                    step3_locals, out_msg, coll >>

\* switch (stat.MPI_TAG)
R_Handle(r) ==
    /\ At(r, 0, "r_handle")
    /\ LET m == msg[r][0]
       IN  IF m.tag = SET_TO_LABEL THEN HandleSetToLabel(r, m)
           ELSE IF m.tag = COMPUTE_FROM_LABEL THEN HandleComputeFromLabel(r, m)
           ELSE IF m.tag = SINK_FOUND THEN HandleSinkFound(r)
           ELSE IF m.tag \in {TOKEN_WHITE, TOKEN_RED} THEN HandleToken(r, m)
           ELSE IF m.tag = CHECK_TERMINATION THEN HandleCheckTermination(r)
           ELSE HandleInvalid(r)
    /\ UNCHANGED << cfg, observed, h_lock, pass, algorithm_complete, entry, msg,
                    total_flow >>

\* Single rank: the router flushes the white tokens of its own rank with
\* MPI_Iprobe, then leaves the switch
R_Flush(r) ==
    /\ At(r, 0, "r_flush")
    /\ IF \E u \in Threads : Pending(r, u, r) /\ out_msg[r][u].tag = TOKEN_WHITE
       THEN /\ Post(r, CHOOSE u \in Threads :
                          Pending(r, u, r) /\ out_msg[r][u].tag = TOKEN_WHITE,
                    NoMsg)
            /\ UNCHANGED << pc, working_threads >>
       ELSE /\ working_threads' = [working_threads EXCEPT ![r] = @ - 1]
            /\ Goto(r, 0, RouterLoop(sink_found[r]))
            /\ UNCHANGED out_msg
    /\ UNCHANGED << cfg, observed, flow, labels, edge_queue, h_lock, my_color,
                    have_token, token_color, queue_is_empty, sink_found,
                    step_3_tid, pass, algorithm_complete, entry,
                    step3_locals, msg, coll, total_flow >>

\* for (i = 1; i < mpi_size; ++i) MPI_Ssend(CHECK_TERMINATION to i).  The
\* token message carries no data, so the value field of msg is free and holds
\* i - 1: the send to rank i has been matched; the next rank is sent to, or
\* the all-reduce is entered
R_CheckTermination(r) ==
    /\ At(r, 0, "r_ct")
    /\ SendDone(r, 0)
    /\ IF msg[r][0].value + 2 < cfg.mpi_size
       THEN /\ Post(r, 0, Marker(CHECK_TERMINATION, msg[r][0].value + 2))
            /\ msg' = [msg EXCEPT ![r][0].value = @ + 1]
            /\ UNCHANGED << pc, coll >>
       ELSE /\ EnterAllreduce(r)
            /\ Goto(r, 0, "r_ar")
            /\ UNCHANGED << msg, out_msg >>
    /\ UNCHANGED << cfg, observed, flow, labels, edge_queue, h_lock, globals, entry,
                    step3_locals, total_flow >>

RECURSIVE SumVals(_)
SumVals(n) == IF n < 0 THEN 0 ELSE coll[n].val + SumVals(n - 1)

\* an all-reduce that returns to the ranks that are in it without the others,
\* each with its own contribution
AllreduceReleaseAlone ==
    /\ \E r \in Ranks : coll[r].kind = "allreduce"
    /\ coll' = [r \in Ranks |-> IF coll[r].kind = "allreduce"
                                THEN [kind |-> "result", val |-> coll[r].val]
                                ELSE coll[r]]
    /\ UNCHANGED << cfg, observed, flow, labels, edge_queue, h_lock, globals, pc, entry,
                    step3_locals, msg, out_msg, total_flow >>

\* MPI_Allreduce(MPI_SUM) returns on every rank once every rank has entered it
AllreduceRelease ==
    /\ \A r \in Ranks : coll[r].kind = "allreduce"
    /\ coll' = [r \in Ranks |-> [kind |-> "result",
                                 val |-> SumVals(cfg.mpi_size - 1)]]
    /\ UNCHANGED << cfg, observed, flow, labels, edge_queue, h_lock, globals, pc, entry,
                    step3_locals, msg, out_msg, total_flow >>

\* if (result == 0) { algorithm_complete = true; return NULL; }
R_AllreduceDone(r) ==
    /\ At(r, 0, "r_ar")
    /\ coll[r].kind = "result"
    /\ coll' = [coll EXCEPT ![r] = NoColl]
    /\ working_threads' = [working_threads EXCEPT ![r] = @ - 1]
    /\ IF coll[r].val = 0
       THEN /\ algorithm_complete' = [algorithm_complete EXCEPT ![r] = TRUE]
            /\ Goto(r, 0, "done")
            /\ UNCHANGED have_token
       ELSE /\ have_token' = [have_token EXCEPT ![r] =
                                 IF msg[r][0].tag = CHECK_TERMINATION
                                 THEN @ ELSE TRUE]
            /\ Goto(r, 0, RouterLoop(sink_found[r]))
            /\ UNCHANGED algorithm_complete
    /\ UNCHANGED << cfg, observed, flow, labels, edge_queue, h_lock, my_color,
                    token_color, queue_is_empty, sink_found, step_3_tid, pass,
                    entry, step3_locals, msg, out_msg, total_flow >>

-----------------------------------------------------------------------------
(* Step 2, the other threads: the labelling workers *)

\* One evaluation of  !edge_queue.pop(entry) && !sink_found &&
\* !algorithm_complete  under h_lock, and, when the loop is left, the code up
\* to the end of the locked block and the test of sink_found after it
PopAttempt(r, t) ==
    IF edge_queue[r] # << >> \/ sink_found[r] \/ algorithm_complete[r]
    THEN /\ IF edge_queue[r] # << >>
            THEN /\ entry' = [entry EXCEPT ![r][t] = Head(edge_queue[r])]
                 /\ edge_queue' = [edge_queue EXCEPT ![r] = Tail(@)]
            ELSE UNCHANGED << entry, edge_queue >>
         /\ h_lock' = [h_lock EXCEPT ![r] = -1]
         /\ IF algorithm_complete[r]
            THEN /\ Goto(r, t, "done")
                 /\ UNCHANGED << working_threads, queue_is_empty >>
            ELSE /\ queue_is_empty' = [queue_is_empty EXCEPT ![r] = FALSE]
                 /\ IF sink_found[r]
                    THEN /\ Goto(r, t, "bar3")
                         /\ UNCHANGED working_threads
                    ELSE /\ Goto(r, t, "w_proc")
                         /\ working_threads' =
                                [working_threads EXCEPT ![r] = @ + 1]
    ELSE /\ h_lock' = [h_lock EXCEPT ![r] = t]
         /\ Goto(r, t, "w_empty")
         /\ UNCHANGED << entry, edge_queue, working_threads, queue_is_empty >>

\* while (!sink_found) { ScopedLock l(h_lock); first pop attempt
W_Top(r, t) ==
    /\ t # 0
    /\ At(r, t, "w_top")
    /\ IF sink_found[r]
       THEN /\ Goto(r, t, "bar3")
            /\ UNCHANGED << entry, edge_queue, h_lock, working_threads,
                            queue_is_empty >>
       ELSE /\ h_lock[r] = -1
            /\ PopAttempt(r, t)
    /\ UNCHANGED << cfg, observed, flow, labels, my_color, have_token, token_color,
                    sink_found, step_3_tid, pass, algorithm_complete,
                    step3_locals, msg, out_msg, coll, total_flow >>

\* a further pop attempt of the thread holding h_lock
W_Pop(r, t) ==
    /\ At(r, t, "w_pop")
    /\ PopAttempt(r, t)
    /\ UNCHANGED << cfg, observed, flow, labels, my_color, have_token, token_color,
                    sink_found, step_3_tid, pass, algorithm_complete,
                    step3_locals, msg, out_msg, coll, total_flow >>

\* a worker that keeps the token
MaySendTokenNever(r) == FALSE

\* a rank that sends a token whenever it is idle, with or without the token
MaySendTokenWithout(r) == working_threads[r] = 0 /\ ~sink_found[r]

\* if (have_token && working_threads == 0 && !sink_found)
MaySendToken(r) ==
    have_token[r] /\ working_threads[r] = 0 /\ ~sink_found[r]

\* a token that is passed on with the colour it came with
SentTokenColorKept(r) == token_color[r]

\* the colour the token is sent with
SentTokenColor(r) ==
    IF my_color[r] = TOKEN_RED THEN TOKEN_RED ELSE token_color[r]

\* The body of the wait loop: queue_is_empty = true, and the token is sent
\* to the next rank when this rank holds it and is idle
W_Empty(r, t) ==
    /\ At(r, t, "w_empty")
    /\ queue_is_empty' = [queue_is_empty EXCEPT ![r] = TRUE]
    /\ IF MaySendToken(r)
       THEN /\ token_color' = [token_color EXCEPT ![r] = SentTokenColor(r)]
            /\ have_token' = [have_token EXCEPT ![r] = FALSE]
            /\ Post(r, t, Marker(SentTokenColor(r), NextRank(r)))
            /\ sent_down' = [sent_down EXCEPT ![r] = FALSE]
            /\ Goto(r, t, "w_tok")
       ELSE /\ Goto(r, t, "w_pop")
            /\ UNCHANGED << token_color, have_token, out_msg, sent_down >>
    /\ UNCHANGED << cfg, past, flow, labels, edge_queue, h_lock, working_threads,
                    my_color, sink_found, step_3_tid, pass,
                    algorithm_complete, entry, step3_locals, msg, coll,
                    total_flow >>

\* MPI_Ssend of the token has returned: my_color = TOKEN_WHITE
W_TokenSent(r, t) ==
    /\ At(r, t, "w_tok")
    /\ SendDone(r, t)
    /\ my_color' = [my_color EXCEPT ![r] = TOKEN_WHITE]
    /\ Goto(r, t, "w_pop")
    /\ UNCHANGED << cfg, observed, flow, labels, edge_queue, h_lock, working_threads,
                    have_token, token_color, queue_is_empty, sink_found,
                    step_3_tid, pass, algorithm_complete, entry,
                    step3_locals, msg, out_msg, coll, total_flow >>

\* handle_out_edge: int flow_diff = edge.capacity - edge.flow
FlowDiff(e) ==
    OutEdges(e.vertex_index)[e.edge_index].capacity
        - flow[e.vertex_index][e.edge_index]

\* a label that takes the whole of the residual capacity
OutLabelValResidual(e) == FlowDiff(e)

\* handle_out_edge: int label_val = min(abs(labels[from_id].value), flow_diff)
OutLabelVal(e) == Min2(Abs(labels[e.vertex_index].value), FlowDiff(e))

\* handle_in_edge: the flow of the first out-edge of from_id whose vert_index
\* is to_id, -1 when there is none
InCurrFlow(e) ==
    FirstFlowTo(flow, InEdges(e.vertex_index)[e.edge_index].dest,
                e.vertex_index, 1, -1)

\* a label that takes the whole of the label of the vertex it comes from
InLabelValWhole(e) == -Abs(labels[e.vertex_index].value)

\* handle_in_edge: int label_val = -min(abs(labels[to_id].value), curr_flow)
InLabelVal(e) == -Min2(Abs(labels[e.vertex_index].value), InCurrFlow(e))

\* the far end of the popped edge
FarEnd(e) ==
    IF e.is_outgoing THEN OutEdges(e.vertex_index)[e.edge_index].dest
    ELSE InEdges(e.vertex_index)[e.edge_index].dest

\* the edge is discarded before any label is computed
Discarded(r, e) ==
    IF e.is_outgoing THEN FlowDiff(e) <= 0
    ELSE RankOf(FarEnd(e)) = r /\ InCurrFlow(e) <= 0

\* a message that carries the number of the pass before
LabelMessageLate(r, e) ==
    IF e.is_outgoing
    THEN Message(SET_TO_LABEL, RankOf(FarEnd(e)), e.vertex_index, FarEnd(e),
                 OutLabelVal(e), pass[r] - 1)
    ELSE Message(COMPUTE_FROM_LABEL, RankOf(FarEnd(e)), e.vertex_index,
                 FarEnd(e), labels[e.vertex_index].value, pass[r] - 1)

\* the message sent for an edge whose far end is on another rank
LabelMessage(r, e) ==
    IF e.is_outgoing
    THEN Message(SET_TO_LABEL, RankOf(FarEnd(e)), e.vertex_index, FarEnd(e),
                 OutLabelVal(e), pass[r])
    ELSE Message(COMPUTE_FROM_LABEL, RankOf(FarEnd(e)), e.vertex_index,
                 FarEnd(e), labels[e.vertex_index].value, pass[r])

\* handle_out_edge / handle_in_edge on the popped entry, and, when the sink
\* was labelled, the claim of step 3 and the SINK_FOUND sent to the own router
W_Process(r, t) ==
    /\ At(r, t, "w_proc")
    /\ LET e == entry[r][t]
           far == FarEnd(e)
           val == IF e.is_outgoing THEN OutLabelVal(e) ELSE InLabelVal(e)
       IN  IF Discarded(r, e)
           THEN /\ working_threads' = [working_threads EXCEPT ![r] = @ - 1]
                /\ Goto(r, t, "w_top")
                /\ UNCHANGED << labels, edge_queue, my_color, step_3_tid,
                                bt_idx, out_msg, sent_down >>
           ELSE IF RankOf(far) = r
           THEN /\ labels' = SetLabelLabels(labels, e.vertex_index, r,
                                            e.vertex_index, far, val)
                /\ edge_queue' = [edge_queue EXCEPT ![r] =
                       SetLabelQueue(r, @, labels, e.vertex_index, r,
                                     e.vertex_index, far, val)]
                /\ IF SetLabelFound(labels, far)
                   THEN /\ bt_idx' = [bt_idx EXCEPT ![r][t] = far]
                        /\ step_3_tid' =
                               [step_3_tid EXCEPT ![r] = ClaimStep3(@, t)]
                        /\ Post(r, t, Marker(SINK_FOUND, r))
                        /\ Goto(r, t, "w_sf")
                        /\ UNCHANGED working_threads
                   ELSE /\ working_threads' =
                               [working_threads EXCEPT ![r] = @ - 1]
                        /\ Goto(r, t, "w_top")
                        /\ UNCHANGED << bt_idx, step_3_tid, out_msg >>
                /\ UNCHANGED << my_color, sent_down >>
           ELSE /\ my_color' = IF RankOf(far) < r
                               THEN [my_color EXCEPT ![r] = TOKEN_RED]
                               ELSE my_color
                /\ sent_down' = IF RankOf(far) < r
                                THEN [sent_down EXCEPT ![r] = TRUE]
                                ELSE sent_down
                /\ Post(r, t, LabelMessage(r, e))
                /\ Goto(r, t, "w_send")
                /\ UNCHANGED << labels, edge_queue, working_threads,
                                step_3_tid, bt_idx >>
    /\ UNCHANGED << cfg, past, flow, h_lock, have_token, token_color,
                    queue_is_empty, sink_found, pass, algorithm_complete,
                    entry, sink_value, sink_founds_needed,
                    wait_for_source_found, msg, coll, total_flow >>

\* MPI_Ssend of the labelling message has returned
W_Sent(r, t) ==
    /\ At(r, t, "w_send")
    /\ SendDone(r, t)
    /\ working_threads' = [working_threads EXCEPT ![r] = @ - 1]
    /\ Goto(r, t, "w_top")
    /\ UNCHANGED << cfg, observed, flow, labels, edge_queue, h_lock, my_color,
                    have_token, token_color, queue_is_empty, sink_found,
                    step_3_tid, pass, algorithm_complete, entry,
                    step3_locals, msg, out_msg, coll, total_flow >>

\* MPI_Ssend of SINK_FOUND to the own router has returned:
\* sink_found = true, the worker leaves step 2
W_SinkFoundSent(r, t) ==
    /\ At(r, t, "w_sf")
    /\ SendDone(r, t)
    /\ sink_found' = [sink_found EXCEPT ![r] = TRUE]
    /\ working_threads' = [working_threads EXCEPT ![r] = @ - 1]
    /\ Goto(r, t, "bar3")
    /\ UNCHANGED << cfg, observed, flow, labels, edge_queue, h_lock, my_color,
                    have_token, token_color, queue_is_empty, step_3_tid,
                    pass, algorithm_complete, entry, step3_locals, msg,
                    out_msg, coll, total_flow >>

-----------------------------------------------------------------------------
(* After step 2: the step 3 gate and the SINK_FOUND rounds *)

\* a gate that lets every thread into step 3
DesignatedAll(r, t) == TRUE

\* __sync_fetch_and_add(&step_3_tid, 0) == tid
Designated(r, t) == step_3_tid[r] = t

\* if (step_3_tid != tid) continue;  otherwise sink_founds_needed and
\* sink_value are set and, with more than one rank, the first SINK_FOUND is
\* sent to the next rank
S3_Gate(r, t) ==
    /\ At(r, t, "s3_gate")
    /\ IF ~Designated(r, t)
       THEN /\ Goto(r, t, TopOfPass(r))
            /\ UNCHANGED << sink_founds_needed, sink_value, out_msg >>
       ELSE /\ sink_founds_needed' = [sink_founds_needed EXCEPT ![r][t] =
                   IF cfg.mpi_size = 1 THEN 0
                   ELSE IF bt_idx[r][t] # NoIdx THEN 2 ELSE 1]
            /\ sink_value' = IF bt_idx[r][t] # NoIdx
                             THEN [sink_value EXCEPT ![r][t] =
                                      labels[bt_idx[r][t]].value]
                             ELSE sink_value
            /\ IF cfg.mpi_size > 1
               THEN /\ Post(r, t, Marker(SINK_FOUND, NextRank(r)))
                    /\ Goto(r, t, "s3_sf")
               ELSE /\ Goto(r, t, "s3_flush")
                    /\ UNCHANGED out_msg
    /\ UNCHANGED << cfg, observed, flow, labels, edge_queue, h_lock, globals, entry,
                    bt_idx, wait_for_source_found, msg, coll, total_flow >>

\* wait_and_flush(tag): the message received ends the wait
Awaited(m, r, tag) == m.tag = tag /\ m.src = PrevRank(r)

\* One MPI_Recv of wait_and_flush(SINK_FOUND), after the MPI_Ssend before it
\* has returned.  The awaited message decrements sink_founds_needed; the
\* next SINK_FOUND is sent while more are needed, and once more at the end
\* by every rank but the finder.
S3_SinkFoundRecv(r, t) ==
    /\ At(r, t, "s3_sf")
    /\ SendDone(r, t)
    /\ \E s \in Ranks, u \in Threads :
          /\ Match(r, t, s, u)
          /\ IF Awaited(Received(s, u), r, SINK_FOUND)
             THEN /\ sink_founds_needed' =
                         [sink_founds_needed EXCEPT ![r][t] = @ - 1]
                  /\ IF sink_founds_needed[r][t] - 1 > 0
                     THEN /\ out_msg' = [out_msg EXCEPT ![s][u] = NoMsg,
                                 ![r][t] = Marker(SINK_FOUND, NextRank(r))]
                          /\ UNCHANGED pc
                     ELSE /\ out_msg' = [out_msg EXCEPT ![s][u] = NoMsg,
                                 ![r][t] = IF bt_idx[r][t] = NoIdx
                                           THEN Marker(SINK_FOUND, NextRank(r))
                                           ELSE NoMsg]
                          /\ Goto(r, t, "s3_flush")
             ELSE /\ Post(s, u, NoMsg)
                  /\ UNCHANGED << sink_founds_needed, pc >>
    /\ UNCHANGED << cfg, observed, flow, labels, edge_queue, h_lock, globals, entry,
                    bt_idx, sink_value, wait_for_source_found, coll,
                    total_flow >>

\* The MPI_Iprobe / MPI_Recv loop before the barrier: a message that can be
\* received is received and dropped; when there is none the thread enters
\* MPI_Barrier
S3_Flush(r, t) ==
    /\ At(r, t, "s3_flush")
    /\ SendDone(r, t)
    /\ \E s \in Ranks, u \in Threads :
          IF Pending(s, u, r)
          THEN /\ Match(r, t, s, u)
               /\ Post(s, u, NoMsg)
               /\ UNCHANGED << pc, coll >>
          ELSE /\ ~AnyPending(r)
               /\ coll' = [coll EXCEPT ![r] = [kind |-> "barrier", val |-> 0]]
               /\ Goto(r, t, "s3_mb1")
               /\ UNCHANGED << msg, out_msg >>
    /\ UNCHANGED << cfg, observed, flow, labels, edge_queue, h_lock, globals, entry,
                    step3_locals, total_flow >>

\* MPI_Barrier returns on every rank once every rank has entered it
MpiBarrierRelease ==
    /\ \A r \in Ranks : coll[r].kind = "barrier"
    /\ coll' = [r \in Ranks |-> NoColl]
    /\ pc' = [r \in Ranks |-> [t \in Threads |->
                 IF pc[r][t] = "s3_mb1" THEN "s3_loop"
                 ELSE IF pc[r][t] = "s3_mb2" THEN "s3_end"
                 ELSE pc[r][t]]]
    /\ wait_for_source_found' = [r \in Ranks |-> [t \in Threads |->
                 IF pc[r][t] = "s3_mb1" THEN FALSE
                 ELSE wait_for_source_found[r][t]]]
    /\ flow_before_step3' =
           IF \E r \in Ranks, t \in Threads : pc[r][t] = "s3_mb1"
           THEN flow ELSE flow_before_step3
    /\ UNCHANGED << cfg, flow_at_pass_end, earlier_result, sent_down, flow,
                    labels, edge_queue, h_lock, globals, entry,
                    bt_idx, sink_value, sink_founds_needed, msg, out_msg,
                    total_flow >>

-----------------------------------------------------------------------------
(* Step 3: backtracking *)

RECURSIVE SumSeq(_, _)
SumSeq(f, i) == IF i > Len(f) THEN 0 ELSE f[i] + SumSeq(f, i + 1)

\* the sum of the flow over the source's out-edges
SourceOutFlow == SumSeq(flow[source_id], 1)

\* the flows after the local update for the node bt with label l
BacktrackFlow(r, bt, l, delta) ==
    IF l.value > 0 /\ l.prev_rank_loc = r
    THEN FlowAdd(flow, l.prev_vert_index, bt, delta)
    ELSE IF l.value < 0
    THEN FlowAdd(flow, bt, l.prev_node, -delta)
    ELSE flow

\* the source node was processed: bt_idx == l.prev_vert_index &&
\* l.prev_node == source_id
AtSource(bt, l) == bt = l.prev_vert_index /\ l.prev_node = source_id

\* a thread that waits for SOURCE_FOUND whenever it has left the loop
LeaveLoopWaiting(r, t, wait) ==
    /\ wait_for_source_found' = [wait_for_source_found EXCEPT ![r][t] = TRUE]
    /\ Goto(r, t, "s3_src")

\* where the thread goes when step_3_done is set: SOURCE_FOUND is sent to the
\* next rank when there is more than one rank
LeaveLoop(r, t, wait) ==
    /\ wait_for_source_found' = [wait_for_source_found EXCEPT ![r][t] = wait]
    /\ Goto(r, t, "s3_src")

\* One iteration of the step 3 loop with bt_idx on this rank
S3_Backtrack(r, t) ==
    /\ At(r, t, "s3_loop")
    /\ bt_idx[r][t] # NoIdx
    /\ LET bt == bt_idx[r][t]
           l == labels[bt]
       IN  /\ flow' = BacktrackFlow(r, bt, l, sink_value[r][t])
           /\ IF l.prev_rank_loc # r
              THEN /\ Post(r, t, Message(UPDATE_FLOW, l.prev_rank_loc, bt,
                                         l.prev_node, sink_value[r][t], pass[r]))
                   /\ Goto(r, t, "s3_upd")
                   /\ UNCHANGED << bt_idx, wait_for_source_found >>
              ELSE IF AtSource(bt, l)
              THEN /\ LeaveLoop(r, t, cfg.mpi_size > 1)
                   /\ IF cfg.mpi_size > 1
                      THEN Post(r, t, Marker(SOURCE_FOUND, NextRank(r)))
                      ELSE UNCHANGED out_msg
                   /\ UNCHANGED bt_idx
              ELSE /\ bt_idx' = [bt_idx EXCEPT ![r][t] = l.prev_vert_index]
                   /\ UNCHANGED << pc, wait_for_source_found, out_msg >>
    /\ UNCHANGED << cfg, observed, labels, edge_queue, h_lock, globals, entry,
                    sink_value, sink_founds_needed, msg, coll, total_flow >>

\* an MPI_Ssend of UPDATE_FLOW after which bt_idx is kept
S3_UpdateSentKept(r, t) ==
    /\ At(r, t, "s3_upd")
    /\ SendDone(r, t)
    /\ Goto(r, t, "s3_loop")
    /\ UNCHANGED << cfg, observed, flow, labels, edge_queue, h_lock, globals, entry,
                    step3_locals, msg, out_msg, coll, total_flow >>

\* MPI_Ssend of UPDATE_FLOW has returned: bt_idx = -1
S3_UpdateSent(r, t) ==
    /\ At(r, t, "s3_upd")
    /\ SendDone(r, t)
    /\ bt_idx' = [bt_idx EXCEPT ![r][t] = NoIdx]
    /\ Goto(r, t, "s3_loop")
    /\ UNCHANGED << cfg, observed, flow, labels, edge_queue, h_lock, globals, entry,
                    sink_value, sink_founds_needed, wait_for_source_found,
                    msg, out_msg, coll, total_flow >>

\* One iteration of the step 3 loop with bt_idx == -1: MPI_Recv and the
\* switch on the tag
S3_Recv(r, t) ==
    /\ At(r, t, "s3_loop")
    /\ bt_idx[r][t] = NoIdx
    /\ SendDone(r, t)
    /\ \E s \in Ranks, u \in Threads :
          /\ Match(r, t, s, u)
          /\ LET m == Received(s, u)
             IN  IF m.tag = SOURCE_FOUND
                 THEN /\ LeaveLoop(r, t, FALSE)
                      /\ out_msg' = [out_msg EXCEPT ![s][u] = NoMsg,
                             ![r][t] = IF cfg.mpi_size > 1
                                       THEN Marker(SOURCE_FOUND, NextRank(r))
                                       ELSE NoMsg]
                      /\ UNCHANGED << flow, bt_idx, sink_value >>
                 ELSE IF m.tag = UPDATE_FLOW
                 THEN /\ sink_value' = [sink_value EXCEPT ![r][t] = m.value]
                      /\ flow' = FlowAdd(flow, m.receivers_node,
                                         m.senders_node, m.value)
                      /\ bt_idx' = [bt_idx EXCEPT ![r][t] =
                             lookup_global_id(r, m.receivers_node)]
                      /\ Post(s, u, NoMsg)
                      /\ UNCHANGED << pc, wait_for_source_found >>
                 ELSE /\ Post(s, u, NoMsg)
                      /\ UNCHANGED << flow, bt_idx, sink_value, pc,
                                      wait_for_source_found >>
    /\ UNCHANGED << cfg, observed, labels, edge_queue, h_lock, globals, entry,
                    sink_founds_needed, coll, total_flow >>

\* After the loop, once the MPI_Ssend of SOURCE_FOUND has returned: one
\* MPI_Recv of wait_and_flush(SOURCE_FOUND) when it is waited for, else
\* MPI_Barrier
S3_SourceFound(r, t) ==
    /\ At(r, t, "s3_src")
    /\ SendDone(r, t)
    /\ IF wait_for_source_found[r][t]
       THEN \E s \in Ranks, u \in Threads :
              /\ Match(r, t, s, u)
              /\ Post(s, u, NoMsg)
              /\ wait_for_source_found' =
                    [wait_for_source_found EXCEPT ![r][t] =
                        ~Awaited(Received(s, u), r, SOURCE_FOUND)]
              /\ UNCHANGED << pc, coll >>
       ELSE /\ coll' = [coll EXCEPT ![r] = [kind |-> "barrier", val |-> 0]]
            /\ Goto(r, t, "s3_mb2")
            /\ UNCHANGED << msg, out_msg, wait_for_source_found >>
    /\ UNCHANGED << cfg, observed, flow, labels, edge_queue, h_lock, globals, entry,
                    bt_idx, sink_value, sink_founds_needed, total_flow >>

\* the end of step 3 without the increment of pass
S3_EndSamePass(r, t) ==
    /\ At(r, t, "s3_end")
    /\ Goto(r, t, TopOfPass(r))
    /\ flow_at_pass_end' = IF r = RankOf(source_id) THEN SourceOutFlow
                           ELSE flow_at_pass_end
    /\ UNCHANGED << cfg, earlier_result, flow_before_step3, sent_down, flow, labels,
                    edge_queue, h_lock, working_threads,
                    my_color, have_token, token_color, queue_is_empty,
                    sink_found, step_3_tid, pass, algorithm_complete, entry,
                    step3_locals, msg, out_msg, coll, total_flow >>

\* pass++, and the loop test of the next pass
S3_End(r, t) ==
    /\ At(r, t, "s3_end")
    /\ pass' = [pass EXCEPT ![r] = @ + 1]
    /\ Goto(r, t, TopOfPass(r))
    /\ flow_at_pass_end' = IF r = RankOf(source_id) THEN SourceOutFlow
                           ELSE flow_at_pass_end
    /\ UNCHANGED << cfg, earlier_result, flow_before_step3, sent_down, flow, labels,
                    edge_queue, h_lock, working_threads,
                    my_color, have_token, token_color, queue_is_empty,
                    sink_found, step_3_tid, algorithm_complete, entry,
                    step3_locals, msg, out_msg, coll, total_flow >>

-----------------------------------------------------------------------------
(* calc_max_flow after the joins *)

AllJoined(r) == \A t \in Threads : pc[r][t] = "done"

\* Rank 0 has the value once its threads and those of the source's rank have
\* been joined (the source's rank sends TOTAL_FLOW to rank 0)
CalcMaxFlow ==
    /\ total_flow = -1
    /\ AllJoined(0)
    /\ AllJoined(RankOf(source_id))
    /\ total_flow' = SourceOutFlow
    /\ UNCHANGED << cfg, observed, flow, labels, edge_queue, h_lock, globals, pc, entry,
                    step3_locals, msg, out_msg, coll >>

-----------------------------------------------------------------------------

Next ==
    \/ \E r \in Ranks, t \in Threads : LoopTop(r, t)
    \/ \E r \in Ranks : BarrierRelease(r)
    \/ \E r \in Ranks : Step1(r)
    \/ \E r \in Ranks : R_Recv(r)
    \/ \E r \in Ranks : R_Inc(r)
    \/ \E r \in Ranks : R_Handle(r)
    \/ \E r \in Ranks : R_Flush(r)
    \/ \E r \in Ranks : R_CheckTermination(r)
    \/ AllreduceRelease
    \/ \E r \in Ranks : R_AllreduceDone(r)
    \/ \E r \in Ranks, t \in Threads : W_Top(r, t)
    \/ \E r \in Ranks, t \in Threads : W_Pop(r, t)
    \/ \E r \in Ranks, t \in Threads : W_Empty(r, t)
    \/ \E r \in Ranks, t \in Threads : W_TokenSent(r, t)
    \/ \E r \in Ranks, t \in Threads : W_Process(r, t)
    \/ \E r \in Ranks, t \in Threads : W_Sent(r, t)
    \/ \E r \in Ranks, t \in Threads : W_SinkFoundSent(r, t)
    \/ \E r \in Ranks, t \in Threads : S3_Gate(r, t)
    \/ \E r \in Ranks, t \in Threads : S3_SinkFoundRecv(r, t)
    \/ \E r \in Ranks, t \in Threads : S3_Flush(r, t)
    \/ MpiBarrierRelease
    \/ \E r \in Ranks, t \in Threads : S3_Backtrack(r, t)
    \/ \E r \in Ranks, t \in Threads : S3_UpdateSent(r, t)
    \/ \E r \in Ranks, t \in Threads : S3_Recv(r, t)
    \/ \E r \in Ranks, t \in Threads : S3_SourceFound(r, t)
    \/ \E r \in Ranks, t \in Threads : S3_End(r, t)
    \/ CalcMaxFlow

Spec == Init /\ [][Next]_vars

-----------------------------------------------------------------------------
(* The vocabulary of the properties *)

\* every thread of every rank has returned from run_algorithm
AllReturned == \A r \in Ranks, t \in Threads : pc[r][t] = "done"

\* no thread is between the two MPI barriers of step 3, where flows change:
\* the state after a completed pass, and the state at termination
PassComplete ==
    \A r \in Ranks, t \in Threads : pc[r][t] \notin {"s3_loop", "s3_upd", "s3_src", "s3_mb2"}

\* The reference value: by the max-flow min-cut theorem the maximum s-t flow
\* is the least capacity of a cut separating the source from the sink
RECURSIVE CapAcross(_, _, _)
CapAcross(S, u, i) ==
    IF i > Len(OutEdges(u)) THEN 0
    ELSE (IF OutEdges(u)[i].dest \notin S THEN OutEdges(u)[i].capacity ELSE 0)
         + CapAcross(S, u, i + 1)

RECURSIVE CutCapacity(_, _)
CutCapacity(S, u) ==
    IF u >= N THEN 0
    ELSE (IF u \in S THEN CapAcross(S, u, 1) ELSE 0) + CutCapacity(S, u + 1)

Cuts == { S \in SUBSET Vertices : source_id \in S /\ sink_id \notin S }

MaxFlowValue ==
    CHOOSE c \in { CutCapacity(S, 0) : S \in Cuts } :
        \A S \in Cuts : c <= CutCapacity(S, 0)

\* the flow entering v: over every out-edge of every vertex that ends in v
RECURSIVE FlowInto(_, _, _)
FlowInto(v, u, i) ==
    IF u >= N THEN 0
    ELSE IF i > Len(OutEdges(u)) THEN FlowInto(v, u + 1, 1)
    ELSE (IF OutEdges(u)[i].dest = v THEN flow[u][i] ELSE 0)
         + FlowInto(v, u, i + 1)

InFlow(v) == FlowInto(v, 0, 1)
OutFlow(v) == SumSeq(flow[v], 1)

LabellingTags == {SET_TO_LABEL, COMPUTE_FROM_LABEL}

\* thread (r, t) holds a popped entry (being processed, or in its message
\* that is not yet received)
HoldsEntry(r, t) == pc[r][t] \in {"w_proc", "w_send"}

\* the router of rank r holds a labelling message it has not processed
HoldsMessage(r) ==
    pc[r][0] \in {"r_inc", "r_handle"} /\ msg[r][0].tag \in LabellingTags

\* globally quiescent, and no path to the sink was found
Quiescent ==
    /\ \A r \in Ranks : edge_queue[r] = << >>
    /\ \A r \in Ranks, t \in Threads : ~HoldsEntry(r, t)
    /\ \A r \in Ranks : ~HoldsMessage(r)
    /\ labels[sink_id].value = 0

-----------------------------------------------------------------------------
(* The claims *)

\* C1 (optimality): the value calc_max_flow returns at rank 0 equals the
\* maximum s-t flow of the input graph, for every graph, number of ranks,
\* partition and interleaving.
C1_Optimality == total_flow # -1 => total_flow = MaxFlowValue

\* C2 (termination-detection soundness): a router sets algorithm_complete
\* only in a state where every edge queue is empty, no thread holds a popped
\* entry or an unprocessed labelling message, and the sink is unlabelled.
C2_TerminationSound ==
    [][(\E r \in Ranks : ~algorithm_complete[r] /\ algorithm_complete'[r])
          => Quiescent]_vars

\* C3 (capacity): after every completed pass and at termination every
\* out-edge on every rank has 0 <= flow <= capacity.
C3_Capacity ==
    PassComplete =>
        \A v \in Vertices : \A i \in 1 .. Len(OutEdges(v)) :
            0 <= flow[v][i] /\ flow[v][i] <= OutEdges(v)[i].capacity

\* C4 (conservation): after every completed pass and at termination, at every
\* vertex other than the source and the sink the flow entering equals the
\* flow leaving.
C4_Conservation ==
    PassComplete =>
        \A v \in Vertices \ {source_id, sink_id} : InFlow(v) = OutFlow(v)

-----------------------------------------------------------------------------
(* Fair scheduling: every thread that can take a step eventually takes one,
   and a collective every rank has entered eventually returns *)

\* the largest number of ranks and of threads per rank of a configuration
MaxRanks == 3
MaxThreads == 3
RankIds == 0 .. (MaxRanks - 1)
ThreadIds == 0 .. (MaxThreads - 1)

\* a step of thread 0 of rank r in step 1 or as the router
RouterNext(r) ==
    \/ Step1(r)
    \/ R_Recv(r)
    \/ R_Inc(r)
    \/ R_Handle(r)
    \/ R_Flush(r)
    \/ R_CheckTermination(r)
    \/ R_AllreduceDone(r)

\* a step of thread (r, t)
ThreadNext(r, t) ==
    /\ r \in Ranks
    /\ t \in Threads
    /\ \/ LoopTop(r, t)
       \/ t = 0 /\ RouterNext(r)
       \/ W_Top(r, t)
       \/ W_Pop(r, t)
       \/ W_Empty(r, t)
       \/ W_TokenSent(r, t)
       \/ W_Process(r, t)
       \/ W_Sent(r, t)
       \/ W_SinkFoundSent(r, t)
       \/ S3_Gate(r, t)
       \/ S3_SinkFoundRecv(r, t)
       \/ S3_Flush(r, t)
       \/ S3_Backtrack(r, t)
       \/ S3_UpdateSent(r, t)
       \/ S3_Recv(r, t)
       \/ S3_SourceFound(r, t)
       \/ S3_End(r, t)

Fairness ==
    /\ \A r \in RankIds, t \in ThreadIds : WF_vars(ThreadNext(r, t))
    /\ \A r \in RankIds : WF_vars(r \in Ranks /\ BarrierRelease(r))
    /\ WF_vars(AllreduceRelease)
    /\ WF_vars(MpiBarrierRelease)
    /\ WF_vars(CalcMaxFlow)

FairSpec == Init /\ [][Next]_vars /\ Fairness

\* C5 (termination): under fair scheduling and synchronous reliable delivery,
\* for every graph, every number of ranks and every thread count the command
\* line accepts, every thread of every rank eventually returns from
\* run_algorithm, and the passes that ended in sink-found are at most as many
\* as the max-flow value.
C5_Termination ==
    /\ <>AllReturned
    /\ [](\A r \in Ranks : pass[r] - 1 <= MaxFlowValue)

\* C6 (self-loop ignored): a self-loop on the source never receives flow, and
\* on the input N=2, 0->0:100, 0->1:3 the value reported is 3.
C6_SelfLoopIgnored ==
    /\ \A i \in 1 .. Len(OutEdges(source_id)) :
          OutEdges(source_id)[i].dest = source_id => flow[source_id][i] = 0
    /\ (cfg.out = SelfLoop /\ total_flow # -1) => total_flow = 3

\* the step-3 thread of the source's rank ends a pass in this step
SourcePassEnds ==
    \E t \in Threads : /\ pc[RankOf(source_id)][t] = "s3_end"
                       /\ pc'[RankOf(source_id)][t] # "s3_end"

\* C7 (monotonicity): the flow out of the source never decreases, and at the
\* end of every pass that ended in sink-found it is strictly greater than at
\* the end of the pass before it (0 before the first pass).
C7_Monotonic ==
    [][/\ SourceOutFlow' >= SourceOutFlow
       /\ SourcePassEnds => SourceOutFlow > flow_at_pass_end]_vars

\* a second sink-found pass is about to end on the source's rank
C7_Witness ==
    /\ flow_at_pass_end > 0
    /\ SourceOutFlow > flow_at_pass_end
    /\ \E t \in Threads : pc[RankOf(source_id)][t] = "s3_end"

\* the step is step 1 of thread 0 of rank r
Step1Of(r) == pc[r][0] = "step1" /\ pc'[r][0] = "bar2"

\* C9 (label write-once): within a pass a label that is set (value non-zero)
\* is not written again, neither its value nor its back-pointer; only the
\* wipe of step 1 of the next pass changes it.
C9_WriteOnce ==
    [][\A v \in Vertices :
          (labels[v].value # 0 /\ labels'[v] # labels[v]) => Step1Of(RankOf(v))]_vars

\* a worker is about to call set_label on a vertex that is already labelled,
\* with another predecessor than the one recorded
C9_Witness ==
    \E r \in Ranks, t \in Threads :
        /\ pc[r][t] = "w_proc"
        /\ ~Discarded(r, entry[r][t])
        /\ RankOf(FarEnd(entry[r][t])) = r
        /\ labels[FarEnd(entry[r][t])].value # 0
        /\ labels[FarEnd(entry[r][t])].prev_node # entry[r][t].vertex_index

-----------------------------------------------------------------------------
(* Two runs of the program on the same graph *)

\* main() is run again on the graph of the run that has reported its value,
\* with any number of ranks, partition and thread count
Restart ==
    /\ total_flow # -1
    /\ earlier_result = -1
    /\ earlier_result' = total_flow
    /\ \E c \in Configs :
          /\ c.out = cfg.out
          /\ cfg' = c
          /\ flow' = NoFlow(c)
          /\ labels' = NoLabels(c)
          /\ edge_queue' = PerRank(c, << >>)
          /\ h_lock' = PerRank(c, -1)
          /\ working_threads' = PerRank(c, 0)
          /\ my_color' = PerRank(c, TOKEN_WHITE)
          /\ have_token' = PerRank(c, FALSE)
          /\ token_color' = PerRank(c, TOKEN_WHITE)
          /\ queue_is_empty' = PerRank(c, FALSE)
          /\ sink_found' = PerRank(c, FALSE)
          /\ step_3_tid' = PerRank(c, -1)
          /\ pass' = PerRank(c, 1)
          /\ algorithm_complete' = PerRank(c, FALSE)
          /\ pc' = PerThread(c, "top")
          /\ entry' = PerThread(c, NoEntry)
          /\ bt_idx' = PerThread(c, NoIdx)
          /\ sink_value' = PerThread(c, 0)
          /\ sink_founds_needed' = PerThread(c, 0)
          /\ wait_for_source_found' = PerThread(c, FALSE)
          /\ msg' = PerThread(c, NoRecv)
          /\ out_msg' = PerThread(c, NoMsg)
          /\ coll' = PerRank(c, NoColl)
    /\ total_flow' = -1
    /\ flow_at_pass_end' = 0
    /\ flow_before_step3' = NoFlow(cfg')
    /\ sent_down' = PerRank(cfg', FALSE)

TwoRuns == Init /\ [][Next \/ Restart]_vars

\* C8 (determinism of the value): two complete runs on the same graph report
\* the same value, whatever the number of ranks, the partition, the thread
\* count and the interleaving.
C8_Determinism ==
    (earlier_result # -1 /\ total_flow # -1) => total_flow = earlier_result

-----------------------------------------------------------------------------
(* The step-2 router facing labelling messages the program does not send *)

\* how many passes a delivered message may be away from the rank's pass
StalePassLag == 1

\* labelling messages for any vertex, of the current pass or one near it
Deliverable(r) ==
    { [tag |-> g, src |-> PrevRank(r), senders_node |-> source_id,
       receivers_node |-> rn, value |-> 1, pass |-> p] :
          g \in LabellingTags, rn \in Vertices,
          p \in (pass[r] - StalePassLag) .. (pass[r] + StalePassLag) }

\* the receiver's node is not on rank r, or the pass is not the rank's pass
StaleOrMisrouted(r, m) ==
    lookup_global_id(r, m.receivers_node) = NoIdx \/ m.pass # pass[r]

\* MPI_Recv of the router returns a stale or misrouted labelling message
R_RecvStale(r) ==
    /\ At(r, 0, "r_recv")
    /\ \E m \in Deliverable(r) :
          /\ StaleOrMisrouted(r, m)
          /\ msg' = [msg EXCEPT ![r][0] = m]
    /\ Goto(r, 0, "r_inc")
    /\ UNCHANGED << cfg, observed, flow, labels, edge_queue, h_lock, globals,
                    entry, step3_locals, out_msg, coll, total_flow >>

\* the configurations such messages are delivered in
StaleConfigs ==
    { Config(SingleEdge, <<0, 0>>,    1, 2),
      Config(Chain3,     <<0, 1, 1>>, 2, 2) }

StaleInit == Init /\ cfg \in StaleConfigs

StaleSpec == StaleInit /\ [][Next \/ \E r \in Ranks : R_RecvStale(r)]_vars

\* the router of rank r leaves the switch on a stale or misrouted labelling
\* message in this step
DropsStale(r) ==
    /\ pc[r][0] = "r_handle"
    /\ pc'[r][0] # "r_handle"
    /\ msg[r][0].tag \in LabellingTags
    /\ StaleOrMisrouted(r, msg[r][0])

\* C10 (stale and misrouted messages are dropped): on a SET_TO_LABEL or
\* COMPUTE_FROM_LABEL whose receiver is not on this rank or whose pass is not
\* the current pass, the router changes no label, enqueues no edge, sets
\* neither sink_found nor step_3_tid, and takes back the one it added to
\* working_threads on the receive.
C10_Dropped ==
    [][\A r \in Ranks :
          /\ (pc[r][0] = "r_inc" /\ pc'[r][0] # "r_inc")
                => working_threads'[r] = working_threads[r] + 1
          /\ DropsStale(r)
                => /\ labels' = labels
                   /\ edge_queue' = edge_queue
                   /\ sink_found' = sink_found
                   /\ step_3_tid' = step_3_tid
                   /\ working_threads'[r] = working_threads[r] - 1]_vars

\* the router is about to handle a stale message for a vertex of its rank
\* that has no label yet
C10_Witness ==
    \E r \in Ranks :
        /\ pc[r][0] = "r_handle"
        /\ msg[r][0].tag \in LabellingTags
        /\ msg[r][0].pass # pass[r]
        /\ lookup_global_id(r, msg[r][0].receivers_node) # NoIdx
        /\ labels[msg[r][0].receivers_node].value = 0

-----------------------------------------------------------------------------
(* The chain and the two-path graph, on one and on two ranks *)

ChainConfigs ==
    { Config(Chain6, <<0, 0, 0, 0, 0, 0>>, 1, 2),
      Config(Chain6, <<0, 1, 0, 1, 0, 1>>, 2, 2),
      Config(Chain6, <<0, 0, 0, 1, 1, 1>>, 2, 2),
      Config(Chain6, <<1, 1, 0, 0, 1, 0>>, 2, 2) }

ChainInit == Start(ChainConfigs)

ChainSpec == ChainInit /\ [][Next]_vars

\* C11 (cross-rank chain): on the 6-vertex chain with every capacity 7,
\* spread over two or more ranks, the value reported at rank 0 is 7.
C11_ChainReports7 ==
    (cfg.out = Chain6 /\ cfg.mpi_size >= 2 /\ total_flow # -1) => total_flow = 7

TrapConfigs ==
    { Config(Trap, <<0, 0, 0, 0>>, 1, 2),
      Config(Trap, <<0, 0, 0, 0>>, 1, 3),
      Config(Trap, <<0, 1, 0, 1>>, 2, 2),
      Config(Trap, <<0, 0, 1, 1>>, 2, 2),
      Config(Trap, <<0, 1, 1, 0>>, 2, 2) }

TrapInit == Start(TrapConfigs)

TrapSpec == TrapInit /\ [][Next]_vars

\* C12 (augmenting-path trap): on the two-path graph the value reported at
\* rank 0 is the sum of the two outer capacities, 2000.
C12_TrapReports2000 ==
    (cfg.out = Trap /\ total_flow # -1) => total_flow = 2000

-----------------------------------------------------------------------------
(* The graph whose sink cannot be reached *)

\* the three vertices on one, two and three ranks, with one and with two
\* workers, and two runs that do find the sink
QuietConfigs ==
    { Config(Disconnected, <<0, 0, 0>>, 1, 2),
      Config(Disconnected, <<0, 0, 0>>, 1, 3),
      Config(Disconnected, <<0, 0, 1>>, 2, 2),
      Config(Disconnected, <<0, 1, 0>>, 2, 2),
      Config(Disconnected, <<0, 1, 1>>, 2, 2),
      Config(Disconnected, <<1, 0, 0>>, 2, 2),
      Config(Disconnected, <<1, 0, 1>>, 2, 2),
      Config(Disconnected, <<1, 1, 0>>, 2, 2),
      Config(Disconnected, <<0, 1, 0>>, 2, 3),
      Config(Disconnected, <<0, 1, 2>>, 3, 2),
      Config(Disconnected, <<2, 0, 1>>, 3, 2),
      Config(Disconnected, <<1, 2, 0>>, 3, 2),
      Config(SingleEdge,   <<0, 0>>,    1, 2),
      Config(Chain3,       <<0, 1, 1>>, 2, 2) }

QuietInit == Start(QuietConfigs)

QuietSpec == QuietInit /\ [][Next]_vars /\ Fairness

\* no rank has found the sink or started a second pass, and no flow differs
\* from what read_file left
NothingFound ==
    /\ \A r \in Ranks : ~sink_found[r] /\ step_3_tid[r] = -1 /\ pass[r] = 1
    /\ flow = NoFlow(cfg)
    /\ total_flow \in {-1, 0}

-----------------------------------------------------------------------------
(* The token *)

\* a thread of rank r posts the token for the next rank in this step
SendsToken(r) ==
    \E t \in Threads :
        /\ out_msg[r][t] = NoMsg
        /\ out_msg'[r][t] # NoMsg
        /\ out_msg'[r][t].tag \in {TOKEN_WHITE, TOKEN_RED}

\* C14 (token forwarding condition): when a rank sends the token to its ring
\* successor, its edge queue is empty, none of its threads is processing a
\* popped entry or a received labelling message, and the sink has not been
\* found on it.
C14_TokenForward ==
    [][\A r \in Ranks :
          SendsToken(r) =>
              /\ edge_queue[r] = << >>
              /\ \A t \in Threads : ~HoldsEntry(r, t)
              /\ ~HoldsMessage(r)
              /\ ~sink_found[r]]_vars

-----------------------------------------------------------------------------
(* Step 2 and step 3 *)

\* thread (r, t) is between the barrier that starts step 2 and the one that
\* ends it
InStep2(r, t) ==
    pc[r][t] \in {"r_recv", "r_inc", "r_handle", "r_flush", "r_ct", "r_ar",
                  "w_top", "w_pop", "w_empty", "w_tok", "w_proc", "w_send",
                  "w_sf"}

\* thread (r, t) has passed the gate of step 3 and not yet finished the pass
InStep3(r, t) ==
    pc[r][t] \in {"s3_sf", "s3_flush", "s3_mb1", "s3_loop", "s3_upd", "s3_src",
                  "s3_mb2", "s3_end"}

\* thread (r, t) is between the two MPI barriers of step 3
BetweenMpiBarriers(r, t) == pc[r][t] \in {"s3_loop", "s3_upd"}

\* C15 (steps 2 and 3 never overlap): a flow is written only while no thread
\* of any rank is in step 2, by the thread that step_3_tid designates on the
\* rank owning the edge, between the two MPI barriers of step 3; and at most
\* one thread of a rank is in step 3.
C15_NoOverlap ==
    [][/\ \A r \in Ranks : Cardinality({t \in Threads : InStep3(r, t)}) <= 1
       /\ flow' # flow =>
             /\ \A r \in Ranks, t \in Threads : ~InStep2(r, t)
             /\ \E r \in Ranks, t \in Threads :
                   /\ BetweenMpiBarriers(r, t)
                   /\ step_3_tid[r] = t
                   /\ \A v \in Vertices :
                         flow'[v] # flow[v] => RankOf(v) = r]_vars

\* in the second pass a rank has applied an UPDATE_FLOW received from
\* another rank
C15_Witness ==
    \E r \in Ranks, t \in Threads :
        /\ BetweenMpiBarriers(r, t)
        /\ pass[r] = 2
        /\ msg[r][t].tag = UPDATE_FLOW
        /\ msg[r][t].pass = 2
        /\ bt_idx[r][t] # NoIdx

-----------------------------------------------------------------------------
(* Leaving step 2 after the sink was found *)

\* a thread has labelled the sink in this pass and has not yet entered the
\* MPI barrier before step 3: its bt_idx is still the sink
SinkJustFound ==
    \E r \in Ranks, t \in Threads :
        /\ bt_idx[r][t] = sink_id
        /\ pc[r][t] \in {"w_sf", "bar3", "s3_gate", "s3_sf", "s3_flush"}

\* no thread is in step 2 and one thread of every rank is in the MPI barrier
\* before step 3
AllAtStep3Barrier ==
    /\ \A r \in Ranks, t \in Threads : ~InStep2(r, t)
    /\ \A r \in Ranks : \E t \in Threads : pc[r][t] = "s3_mb1"

\* C16 (the drain after sink-found is deadlock-free): once a thread has
\* labelled the sink, every synchronous send of a step 2 worker is matched,
\* every thread leaves step 2 and the designated thread of every rank reaches
\* the MPI barrier before step 3.
C16_Drain == SinkJustFound ~> AllAtStep3Barrier

-----------------------------------------------------------------------------
(* What step 3 does to the flows *)

\* the vertices on the chain of back-pointers from v towards the source, the
\* source excluded; n bounds the walk
RECURSIVE Chain(_, _)
Chain(v, n) ==
    IF v = source_id \/ n = 0 \/ labels[v].value = 0 THEN {}
    ELSE {v} \cup Chain(labels[v].prev_node, n - 1)

\* the hops of the augmenting path of this pass
PathHops == Chain(sink_id, N)

\* the flow F carries from u to d, over all edges from u to d
RECURSIVE PairFlowFrom(_, _, _, _)
PairFlowFrom(F, u, d, i) ==
    IF i > Len(OutEdges(u)) THEN 0
    ELSE (IF OutEdges(u)[i].dest = d THEN F[u][i] ELSE 0)
         + PairFlowFrom(F, u, d, i + 1)
PairFlow(F, u, d) == PairFlowFrom(F, u, d, 1)

\* what the claim lets the pass add to the flow from u to d: the label of the
\* sink for a hop d reached from u through a positive label, minus it for a
\* hop u reached from d through a negative label
PathDelta(u, d) ==
    labels[sink_id].value *
      (Cardinality({v \in PathHops :
            labels[v].value > 0 /\ labels[v].prev_node = u /\ v = d})
       - Cardinality({v \in PathHops :
            labels[v].value < 0 /\ v = u /\ labels[v].prev_node = d}))

\* the MPI barrier after step 3 has just opened: the designated thread of
\* every rank is about to end the pass and no label has been wiped yet
Step3Done == \A r \in Ranks : \E t \in Threads : pc[r][t] = "s3_end"

\* C17 (backtracking effect and frame): after step 3 the flow along every
\* hop of the path reached through a positive label has grown by the label
\* of the sink, the flow of the edge taken backwards by a hop with a negative
\* label has shrunk by it, and no other flow has changed.
C17_Backtrack ==
    Step3Done =>
        \A u \in Vertices, d \in Vertices :
            PairFlow(flow, u, d)
                = PairFlow(flow_before_step3, u, d) + PathDelta(u, d)

-----------------------------------------------------------------------------
(* The termination check *)

\* the router of rank r is in the termination check: rank 0 sending
\* CHECK_TERMINATION, or any rank in the all-reduce
InCheck(r) == r \in Ranks /\ pc[r][0] \in {"r_ct", "r_ar"}

\* C18 (termination agreement): a rank whose router is in the send of
\* CHECK_TERMINATION or in the all-reduce leaves it, which needs every rank
\* to enter the same all-reduce; and once one rank has set
\* algorithm_complete every rank sets it.
C18_Agreement ==
    /\ \A r \in RankIds : InCheck(r) ~> ~InCheck(r)
    /\ (\E r \in Ranks : algorithm_complete[r])
          ~> (\A r \in Ranks : algorithm_complete[r])

-----------------------------------------------------------------------------
(* The outcome of a pass *)

\* C19 (pass outcome agreement): a rank that has left step 2 on termination
\* (algorithm_complete) never coexists with a rank that has left it on a
\* found sink (sink_found) or that is in another pass; and a rank that has
\* ended a pass, which only a sink-found pass does, is ahead only of ranks
\* that are ending the same pass with sink_found set.
C19_SameOutcome ==
    \A r, q \in Ranks :
        /\ algorithm_complete[r] => ~sink_found[q] /\ pass[q] = pass[r]
        /\ pass[q] > pass[r] => sink_found[r] /\ pass[q] = pass[r] + 1

\* every rank of a run on two or more ranks has ended a pass on a found
\* sink and then a pass on termination
C19_Witness ==
    /\ cfg.mpi_size >= 2
    /\ \A r \in Ranks : algorithm_complete[r] /\ pass[r] > 1

-----------------------------------------------------------------------------
(* The exit of the threads *)

\* some router has set algorithm_complete
TerminationDetected == \E r \in Ranks : algorithm_complete[r]

\* C20 (all threads exit on termination): once a router has set
\* algorithm_complete, every router and every worker of every rank returns
\* from run_algorithm.
C20_AllExit == TerminationDetected ~> AllReturned

-----------------------------------------------------------------------------
(* The colour of a rank and of the token *)

\* the tag of the token a thread of rank r posts in this step
PostedToken(r) ==
    out_msg'[r][CHOOSE t \in Threads :
                   out_msg[r][t] = NoMsg /\ out_msg'[r][t] # NoMsg].tag

\* the MPI_Ssend of the token of a thread of rank r returns in this step
TokenSendReturns(r) ==
    \E t \in Threads : pc[r][t] = "w_tok" /\ pc'[r][t] # "w_tok"

\* C21 (colour propagation): a rank that has sent a labelling message to a
\* lower rank after its last token of the pass is red; the token it sends
\* next is red; when the send of the token has returned the rank is white;
\* and a rank other than 0 sends the token white only if it received it
\* white, is white and has sent nothing to a lower rank since its last token.
C21_Colour ==
    [][\A r \in Ranks :
          /\ sent_down'[r] => my_color'[r] = TOKEN_RED
          /\ (SendsToken(r) /\ sent_down[r]) => PostedToken(r) = TOKEN_RED
          /\ TokenSendReturns(r) => my_color'[r] = TOKEN_WHITE
          /\ (SendsToken(r) /\ r # 0 /\ PostedToken(r) = TOKEN_WHITE)
                => /\ my_color[r] = TOKEN_WHITE
                   /\ token_color[r] = TOKEN_WHITE
                   /\ ~sent_down[r]]_vars

\* rank 0's router has received the token red, and the rank that made it red
\* is white again
C21_Witness ==
    /\ pc[0][0] = "r_handle"
    /\ msg[0][0].tag = TOKEN_RED
    /\ \A r \in Ranks : my_color[r] = TOKEN_WHITE /\ ~sent_down[r]

-----------------------------------------------------------------------------
(* The thread that backtracks *)

\* thread (r, t) passes the gate of step 3 in this step
PassesGate(r, t) ==
    pc[r][t] = "s3_gate" /\ pc'[r][t] \in {"s3_sf", "s3_flush"}

\* thread (r, t) goes back to the top of the pass loop at the gate
ReturnsToTop(r, t) ==
    pc[r][t] = "s3_gate" /\ pc'[r][t] \in {"bar1", "done"}

\* a set_label of thread (r, t) returns true in this step: the thread gets
\* the index of the sink
LabelsSink(r, t) ==
    InStep2(r, t) /\ bt_idx[r][t] = NoIdx /\ bt_idx'[r][t] # NoIdx

\* C22 (one backtracker per rank): when the threads of a rank are at the gate
\* of step 3 one of them is designated by step_3_tid; it alone passes, the
\* others go back to the top of the pass; on the sink's rank it is the thread
\* whose set_label returned true, on any other rank it is thread 0; and a
\* thread that gets the index of the sink finds step_3_tid unclaimed.
C22_OneBacktracker ==
    [][\A r \in Ranks :
          /\ (\E t \in Threads : pc[r][t] = "s3_gate")
                => step_3_tid[r] \in Threads
          /\ \A t \in Threads :
                /\ InStep3(r, t) => step_3_tid[r] = t
                /\ ReturnsToTop(r, t) => step_3_tid[r] # t
                /\ PassesGate(r, t) =>
                      /\ step_3_tid[r] = t
                      /\ IF r = RankOf(sink_id)
                         THEN bt_idx[r][t] = sink_id
                         ELSE t = 0 /\ bt_idx[r][t] = NoIdx
                /\ LabelsSink(r, t) =>
                      /\ r = RankOf(sink_id)
                      /\ bt_idx'[r][t] = sink_id
                      /\ step_3_tid[r] = -1
                      /\ step_3_tid'[r] = t]_vars

\* on two ranks: a worker of the sink's rank and the router of the other rank
\* are in the backtracking loop
C22_Witness ==
    /\ cfg.mpi_size = 2
    /\ \E t \in Threads \ {0} :
          /\ pc[RankOf(sink_id)][t] = "s3_loop"
          /\ step_3_tid[RankOf(sink_id)] = t
    /\ pc[1 - RankOf(sink_id)][0] = "s3_loop"

-----------------------------------------------------------------------------
(* The SOURCE_FOUND ring *)

\* thread (r, t) posts SOURCE_FOUND in this step
PostsSourceFound(r, t) ==
    /\ out_msg'[r][t] # out_msg[r][t]
    /\ out_msg'[r][t] # NoMsg
    /\ out_msg'[r][t].tag = SOURCE_FOUND

\* the SOURCE_FOUND posted by thread (r, t) is received in this step
SourceFoundTaken(r, t) ==
    /\ out_msg[r][t] # NoMsg
    /\ out_msg[r][t].tag = SOURCE_FOUND
    /\ out_msg'[r][t] # out_msg[r][t]

\* thread (d, u) leaves the backtracking loop, or ends its wait for
\* SOURCE_FOUND, in this step
EndsLoopOrWait(d, u) ==
    \/ pc[d][u] = "s3_loop" /\ pc'[d][u] = "s3_src"
    \/ /\ pc[d][u] = "s3_src"
       /\ wait_for_source_found[d][u]
       /\ ~wait_for_source_found'[d][u]

\* the backtrack has reached the source, on more than one rank
SourceReached ==
    /\ cfg.mpi_size > 1
    /\ \E r \in Ranks, t \in Threads :
          pc[r][t] = "s3_src" /\ wait_for_source_found[r][t]

\* one thread of every rank is in the MPI barrier after step 3
AllAtEndBarrier == \A r \in Ranks : \E t \in Threads : pc[r][t] = "s3_mb2"

\* a SOURCE_FOUND or UPDATE_FLOW is posted and not received
BacktrackPending ==
    \E r \in Ranks, t \in Threads :
        out_msg[r][t] # NoMsg /\ out_msg[r][t].tag \in {SOURCE_FOUND, UPDATE_FLOW}

\* rings of one, two and three ranks; on the last graph the second path takes
\* flow back across the ranks
RingConfigs ==
    { Config(SingleEdge, <<0, 0>>,    1, 2),
      Config(Chain3,     <<0, 1, 1>>, 2, 2),
      Config(Chain3,     <<2, 1, 0>>, 3, 2),
      Config(Chain3,     <<1, 2, 0>>, 3, 2),
      Config(Chain3,     <<0, 2, 1>>, 3, 2),
      Config(PushBack,   <<0, 0, 0, 1, 0, 0>>, 2, 2) }

RingInit == Start(RingConfigs)

RingSpec == RingInit /\ [][Next]_vars /\ Fairness

\* C23 (SOURCE_FOUND ring): a thread sends SOURCE_FOUND only when it leaves
\* the backtracking loop, which it does once a pass, and to the next rank;
\* every SOURCE_FOUND is received by the designated thread of the next rank
\* as the message that ends its loop or its wait; once the backtrack has
\* reached the source the designated thread of every rank reaches the MPI
\* barrier after step 3; and when a rank ends the pass no SOURCE_FOUND or
\* UPDATE_FLOW is undelivered.
C23_SourceFoundRing ==
    /\ [][\A r \in Ranks, t \in Threads :
             /\ PostsSourceFound(r, t) =>
                   /\ pc[r][t] = "s3_loop" /\ pc'[r][t] = "s3_src"
                   /\ out_msg'[r][t].dst = NextRank(r)
             /\ SourceFoundTaken(r, t) =>
                   \E u \in Threads : /\ step_3_tid[NextRank(r)] = u
                                       /\ EndsLoopOrWait(NextRank(r), u)]_vars
    /\ []((\E r \in Ranks, t \in Threads : pc[r][t] = "s3_end")
             => ~BacktrackPending)
    /\ SourceReached ~> AllAtEndBarrier

\* on three ranks the source's rank has received the SOURCE_FOUND that went
\* round the ring
C23_Witness ==
    /\ cfg.mpi_size = 3
    /\ AllAtEndBarrier
    /\ \E t \in Threads :
          /\ pc[RankOf(source_id)][t] = "s3_mb2"
          /\ msg[RankOf(source_id)][t].tag = SOURCE_FOUND

-----------------------------------------------------------------------------
(* A red token at rank 0 *)

\* rank 0's router handles a red token in this step
HandlesRedToken ==
    /\ pc[0][0] = "r_handle"
    /\ msg[0][0].tag = TOKEN_RED
    /\ pc'[0][0] # "r_handle"

\* C24 (red token at rank 0): on a red token rank 0's router sends no
\* CHECK_TERMINATION, enters no all-reduce and does not set
\* algorithm_complete; it goes back to its loop, and rank 0 then holds the
\* token, the token's colour is white and so is the rank's.
C24_RedToken ==
    [][HandlesRedToken =>
          /\ out_msg' = out_msg
          /\ coll' = coll
          /\ algorithm_complete' = algorithm_complete
          /\ pc'[0][0] = RouterLoop(sink_found[0])
          /\ working_threads'[0] = working_threads[0] - 1
          /\ have_token'[0]
          /\ token_color'[0] = TOKEN_WHITE
          /\ my_color'[0] = TOKEN_WHITE]_vars

\* rank 0's router is back in its receive after a red token, and rank 0
\* holds a white token
C24_Witness ==
    /\ pc[0][0] = "r_recv"
    /\ msg[0][0].tag = TOKEN_RED
    /\ have_token[0]
    /\ token_color[0] = TOKEN_WHITE
    /\ ~algorithm_complete[0]

-----------------------------------------------------------------------------
(* Labelling messages and the pass boundary *)

\* a labelling message for rank r is posted and not received
PendingLabelling(s, u, r) ==
    Pending(s, u, r) /\ out_msg[s][u].tag \in LabellingTags

\* C25 (no stale labelling message): a labelling message the router has
\* received in step 2 carries the pass number of its rank, and so does every
\* labelling message that waits for a rank whose router is in step 2; the
\* messages of a pass are received or flushed before the next pass's step 2.
C25_NoStale ==
    \A r \in Ranks :
        /\ HoldsMessage(r) => msg[r][0].pass = pass[r]
        /\ InStep2(r, 0) =>
              \A s \in Ranks, u \in Threads :
                  PendingLabelling(s, u, r) => out_msg[s][u].pass = pass[r]

\* in the second pass a router has received a labelling message, which
\* carries the number of the second pass
C25_Witness ==
    \E r \in Ranks : HoldsMessage(r) /\ pass[r] = 2 /\ msg[r][0].pass = 2

-----------------------------------------------------------------------------
(* working_threads *)

\* thread (r, t) holds a popped entry, or a message it has received in
\* step 2 and not finished handling
HoldsWork(r, t) ==
    IF t = 0 THEN pc[r][t] \in {"r_inc", "r_handle", "r_flush", "r_ct", "r_ar"}
    ELSE pc[r][t] \in {"w_proc", "w_send", "w_sf"}

\* some thread of rank r is in step 2
RankInStep2(r) == \E t \in Threads : InStep2(r, t)

\* C26 (working_threads accuracy): while a rank is in step 2 its
\* working_threads is not negative and is the number of its threads that hold
\* a popped entry or a received message.
C26_WorkingThreads ==
    \A r \in Ranks :
        RankInStep2(r) =>
            /\ working_threads[r] >= 0
            /\ working_threads[r]
                  = Cardinality({t \in Threads : HoldsWork(r, t)})

-----------------------------------------------------------------------------
(* Labelling through a reverse edge *)

\* the flow of the edge u -> v as the code reads it: that of the first
\* out-edge of u that ends in v
ReverseFlow(u, v) == FirstFlowTo(flow, u, v, 1, 0)

\* a worker finishes handle_in_edge on an edge whose far end is on its rank
WorkerReverse(r, t) ==
    /\ pc[r][t] = "w_proc"
    /\ pc'[r][t] # "w_proc"
    /\ ~entry[r][t].is_outgoing
    /\ RankOf(FarEnd(entry[r][t])) = r

\* the router finishes the handling of a COMPUTE_FROM_LABEL
RouterReverse(r) ==
    /\ pc[r][0] = "r_handle"
    /\ pc'[r][0] # "r_handle"
    /\ msg[r][0].tag = COMPUTE_FROM_LABEL

\* what the reverse edge (v <- u) does: u is labelled when it has no label
\* and the edge u -> v carries flow, and nothing happens otherwise
ReverseEffect(u, v) ==
    IF ReverseFlow(u, v) > 0 /\ labels[u].value = 0
    THEN /\ labels'[u].value = -Min2(Abs(labels[v].value), ReverseFlow(u, v))
         /\ labels'[u].prev_node = v
         /\ \A w \in Vertices \ {u} : labels'[w] = labels[w]
    ELSE labels' = labels /\ edge_queue' = edge_queue

\* C27 (reverse-edge labelling, local and remote): the reverse edge (v <- u)
\* labels u only if u has no label and flow(u -> v) > 0, with
\* -min(|label(v)|, flow(u -> v)) and the back-pointer v, and otherwise
\* labels and enqueues nothing; the same when a worker does it for a u of its
\* rank and when the router of u's rank does it on COMPUTE_FROM_LABEL; and a
\* negative label is set in no other way.
C27_ReverseEdge ==
    [][/\ \A r \in Ranks, t \in Threads :
             WorkerReverse(r, t) =>
                 ReverseEffect(FarEnd(entry[r][t]), entry[r][t].vertex_index)
       /\ \A r \in Ranks :
             RouterReverse(r) =>
                 ReverseEffect(msg[r][0].receivers_node, msg[r][0].senders_node)
       /\ \A u \in Vertices :
             (labels'[u] # labels[u] /\ labels'[u].value < 0) =>
                 \/ \E r \in Ranks, t \in Threads :
                       WorkerReverse(r, t) /\ FarEnd(entry[r][t]) = u
                 \/ \E r \in Ranks :
                       RouterReverse(r) /\ msg[r][0].receivers_node = u]_vars

\* a vertex was labelled through a reverse edge by a message from another
\* rank
C27_Witness ==
    \E u \in Vertices :
        /\ labels[u].value < 0
        /\ labels[u].prev_rank_loc # RankOf(u)
        /\ labels[u].prev_node # u

-----------------------------------------------------------------------------
(* Labelling through a forward edge *)

\* a worker finishes handle_out_edge
WorkerForward(r, t) ==
    /\ pc[r][t] = "w_proc"
    /\ pc'[r][t] \in {"w_top", "w_send", "w_sf"}
    /\ entry[r][t].is_outgoing

\* the router finishes the handling of a SET_TO_LABEL
RouterForward(r) ==
    /\ pc[r][0] = "r_handle"
    /\ pc'[r][0] \in {"r_recv", "bar3"}
    /\ msg[r][0].tag = SET_TO_LABEL

\* the label handle_out_edge proposes for the far end of the edge
Proposed(e) == Min2(Abs(labels[e.vertex_index].value), FlowDiff(e))

\* set_label on v with the value and the back-pointer u: the label is written
\* when v has none, and no label changes otherwise
Labels(v, u, value) ==
    IF labels[v].value = 0
    THEN /\ labels'[v].value = value
         /\ labels'[v].prev_node = u
         /\ \A w \in Vertices \ {v} : labels'[w] = labels[w]
    ELSE labels' = labels

\* what the forward edge of the entry e does in the hands of thread t of rank r
ForwardEffect(r, t, e) ==
    IF FlowDiff(e) <= 0
    THEN labels' = labels /\ edge_queue' = edge_queue /\ out_msg' = out_msg
    ELSE /\ Proposed(e) >= 1
         /\ IF RankOf(FarEnd(e)) = r
            THEN /\ Labels(FarEnd(e), e.vertex_index, Proposed(e))
                 /\ out_msg'[r][t].tag \notin LabellingTags
            ELSE /\ labels' = labels
                 /\ out_msg'[r][t].tag = SET_TO_LABEL
                 /\ out_msg'[r][t].dst = RankOf(FarEnd(e))
                 /\ out_msg'[r][t].receivers_node = FarEnd(e)
                 /\ out_msg'[r][t].senders_node = e.vertex_index
                 /\ out_msg'[r][t].value = Proposed(e)

\* a label is no larger in absolute value than the label it came from
BoundedByPrev(L, v) == Abs(L[v].value) <= Abs(L[L[v].prev_node].value)

\* C28 (forward-edge labelling): an edge u -> v without residual capacity
\* writes no label and sends no message; otherwise the proposed label is
\* min(|label(u)|, residual) >= 1, set by set_label when v is local and carried
\* unchanged by SET_TO_LABEL to the set_label of v's rank when it is not; every
\* label that is set is non-zero and at most, in absolute value, the label of
\* its predecessor, and stays so while its rank is in step 2.
C28_ForwardEdge ==
    /\ [][/\ \A r \in Ranks, t \in Threads :
                WorkerForward(r, t) => ForwardEffect(r, t, entry[r][t])
          /\ \A r \in Ranks :
                RouterForward(r) =>
                    /\ msg[r][0].value >= 1
                    /\ Labels(msg[r][0].receivers_node, msg[r][0].senders_node,
                              msg[r][0].value)
          /\ \A v \in Vertices :
                (labels'[v] # labels[v] /\ labels[v].value = 0) =>
                    labels'[v].value # 0 /\ BoundedByPrev(labels', v)]_vars
    /\ [](\A v \in Vertices :
             (labels[v].value # 0 /\ RankInStep2(RankOf(v))) =>
                 BoundedByPrev(labels, v))

\* a vertex holds a label that SET_TO_LABEL brought from another rank, smaller
\* than the label of its predecessor
C28_Witness ==
    \E v \in Vertices :
        /\ labels[v].value > 0
        /\ labels[v].prev_rank_loc # RankOf(v)
        /\ labels[v].value < labels[labels[v].prev_node].value
        /\ RankInStep2(RankOf(v))

-----------------------------------------------------------------------------
(* The compare-and-swap of set_label and the edge queue *)

\* thread t of rank r calls set_label on the vertex v in this step
SetLabelCall(r, t, v) ==
    IF t = 0
    THEN /\ pc[r][0] = "r_handle"
         /\ pc'[r][0] \in {"r_recv", "bar3"}
         /\ msg[r][0].tag \in LabellingTags
         /\ ~WrongRank(r, msg[r][0])
         /\ ~OldMessage(r, msg[r][0])
         /\ msg[r][0].tag = COMPUTE_FROM_LABEL => ComputeFlow(r, msg[r][0]) > 0
         /\ v = msg[r][0].receivers_node
    ELSE /\ pc[r][t] = "w_proc"
         /\ pc'[r][t] \in {"w_top", "w_sf"}
         /\ ~Discarded(r, entry[r][t])
         /\ RankOf(FarEnd(entry[r][t])) = r
         /\ v = FarEnd(entry[r][t])

\* the call that finds the label empty writes it and enqueues the edges of
\* the vertex, unless it is the sink; any other call changes nothing
WinnerOrLoser(r, v) ==
    IF labels[v].value = 0
    THEN /\ labels'[v].value # 0
         /\ labels'[v].prev_node \in Vertices
         /\ \A w \in Vertices \ {v} : labels'[w] = labels[w]
         /\ edge_queue'[r] = IF v = sink_id THEN edge_queue[r]
                             ELSE edge_queue[r] \o insert_edges(r, labels', v)
    ELSE labels' = labels /\ edge_queue' = edge_queue

\* the entries of the queues and the entries the workers hold
EntriesOf(r) ==
    { edge_queue[r][i] : i \in 1..Len(edge_queue[r]) }
        \cup { entry[r][t] : t \in { u \in Threads : HoldsEntry(r, u) } }

\* C29 (only the CAS winner enqueues): a set_label call on a vertex without
\* a label writes the label and the back-pointer and enqueues the edges of the
\* vertex; a call on a labelled vertex changes no label and enqueues nothing;
\* a queue grows only by the edges of the source in step 1 or by those of a
\* vertex, not the sink, in the step that gives it its label; a label, once
\* set, is unchanged until step 1 of the next pass, so the edges of a vertex
\* are enqueued at most once per pass; no entry is an edge of the sink.
C29_CasWinner ==
    /\ [][\A r \in Ranks :
             /\ \A t \in Threads, v \in Vertices :
                   SetLabelCall(r, t, v) => WinnerOrLoser(r, v)
             /\ Len(edge_queue'[r]) > Len(edge_queue[r]) =>
                   \/ Step1Of(r)
                   \/ \E t \in Threads, v \in Vertices \ {sink_id} :
                         /\ SetLabelCall(r, t, v)
                         /\ labels[v].value = 0
                         /\ labels'[v].value # 0
             /\ \A v \in Vertices :
                   (RankOf(v) = r /\ labels[v].value # 0 /\ labels'[v] # labels[v])
                       => Step1Of(r)]_vars
    /\ [](\A r \in Ranks : \A e \in EntriesOf(r) : e.vertex_index # sink_id)

\* a thread is about to call set_label on a vertex, not the sink, that
\* another call has labelled from a different vertex
C29_Witness ==
    \E r \in Ranks, t \in Threads \ {0} :
        /\ pc[r][t] = "w_proc"
        /\ ~Discarded(r, entry[r][t])
        /\ RankOf(FarEnd(entry[r][t])) = r
        /\ FarEnd(entry[r][t]) # sink_id
        /\ labels[FarEnd(entry[r][t])].value # 0
        /\ labels[FarEnd(entry[r][t])].prev_node # entry[r][t].vertex_index

-----------------------------------------------------------------------------
(* The state at the start of step 2 *)

\* the second barrier of the pass opens and the threads of rank r enter step 2
EntersStep2(r) ==
    \E t \in Threads :
        pc[r][t] = "bar2" /\ pc'[r][t] \in {"r_recv", "w_top", "bar3"}

\* the label step 1 gives the source
SourceLabel(r) ==
    [value |-> IntMax, prev_node |-> source_id, prev_rank_loc |-> r,
     prev_vert_index |-> source_id]

\* the globals, the labels and the queue of rank r as step 1 leaves them
PassStart(r, L, Q) ==
    /\ \A v \in Vertices :
          RankOf(v) = r =>
              L[v] = IF v = source_id THEN SourceLabel(r) ELSE EMPTY_LABEL
    /\ Q[r] = IF RankOf(source_id) = r THEN insert_edges(r, L, source_id)
              ELSE << >>
    /\ \A i \in 1..Len(Q[r]) : Q[r][i].vertex_index = source_id

-----------------------------------------------------------------------------
(* The single token *)

TokenTags == {TOKEN_WHITE, TOKEN_RED}

\* the token messages posted by MPI_Ssend and not yet received
PostedTokens ==
    { su \in Ranks \X Threads :
          out_msg[su[1]][su[2]] # NoMsg /\ out_msg[su[1]][su[2]].tag \in TokenTags }

\* the routers that have received a token and not yet set have_token
TakenTokens ==
    { r \in Ranks : pc[r][0] \in {"r_inc", "r_handle"} /\ msg[r][0].tag \in TokenTags }

TokensInFlight == Cardinality(PostedTokens) + Cardinality(TakenTokens)

\* rank 0 has taken the white token and runs the termination check
Checking == pc[0][0] \in {"r_ct", "r_ar"}

\* C31 as stated: the ranks whose have_token is true and the tokens in flight
\* are at most one, in every state.
C31_OneFlag ==
    Cardinality({ r \in Ranks : have_token[r] }) + TokensInFlight <= 1

\* C31 (single token): the ranks in step 2 whose have_token is true and the
\* token messages in flight are together at most one; a token is posted to and
\* received by a router that is in the pass of its sender; rank 0 holds no
\* token, and no token is in flight, while rank 0 checks for termination.
C31_SingleToken ==
    /\ Cardinality({ r \in Ranks : have_token[r] /\ RankInStep2(r) })
           + TokensInFlight <= 1
    /\ \A su \in PostedTokens :
          InStep2(out_msg[su[1]][su[2]].dst, 0) =>
              pass[out_msg[su[1]][su[2]].dst] = pass[su[1]]
    /\ \A r \in TakenTokens : pass[msg[r][0].src] = pass[r]
    /\ Checking =>
          TokensInFlight = 0 /\ \A r \in Ranks : RankInStep2(r) => ~have_token[r]

\* in the second pass the one token is in flight between two ranks
C31_Witness ==
    /\ cfg.mpi_size = 2
    /\ \E su \in PostedTokens :
          /\ pass[su[1]] = 2
          /\ out_msg[su[1]][su[2]].dst # su[1]
    /\ TokensInFlight = 1

-----------------------------------------------------------------------------
(* The pass counters *)

\* the labelling messages posted by MPI_Ssend and not yet received
PostedLabelling ==
    { su \in Ranks \X Threads :
          out_msg[su[1]][su[2]] # NoMsg
              /\ out_msg[su[1]][su[2]].tag \in LabellingTags }

\* the routers that have received a labelling message and not yet handled it
TakenLabelling ==
    { r \in Ranks :
          pc[r][0] \in {"r_inc", "r_handle"} /\ msg[r][0].tag \in LabellingTags }

\* thread t of rank r leaves step 3
LeavesStep3(r, t) == InStep3(r, t) /\ ~InStep3(r, t)'

\* C32 as stated, for the sending: while a labelling message is posted and
\* not yet received, its sender and the rank it is for hold the same pass.
C32_SamePassAtSend ==
    \A su \in PostedLabelling :
        pass[out_msg[su[1]][su[2]].dst] = pass[su[1]]

\* C32 (pass counters in lock-step): pass changes only by one, in the step in
\* which the designated thread of a rank that found the sink leaves step 3,
\* with no thread of the rank in step 2, and the designated thread does not
\* leave step 3 without it; two ranks that are in step 2 hold the same pass and
\* any two ranks differ by at most one; a labelling message carries the pass
\* of its sender, is for a rank that holds that pass or the one before, and is
\* received by a router that holds the pass of the sender.
C32_LockStep ==
    /\ [][\A r \in Ranks :
             /\ pass'[r] # pass[r] =>
                   /\ pass'[r] = pass[r] + 1
                   /\ sink_found[r]
                   /\ step_3_tid[r] \in Threads
                   /\ LeavesStep3(r, step_3_tid[r])
                   /\ ~RankInStep2(r) /\ ~RankInStep2(r)'
             /\ \A t \in Threads :
                   LeavesStep3(r, t) => pass'[r] = pass[r] + 1]_vars
    /\ [](\A r \in Ranks, s \in Ranks :
             /\ (RankInStep2(r) /\ RankInStep2(s)) => pass[r] = pass[s]
             /\ pass[r] - pass[s] \in {-1, 0, 1})
    /\ [](\A su \in PostedLabelling :
             /\ out_msg[su[1]][su[2]].pass = pass[su[1]]
             /\ pass[su[1]] - pass[out_msg[su[1]][su[2]].dst] \in {0, 1})
    /\ [](\A r \in TakenLabelling :
             msg[r][0].pass = pass[r] /\ pass[msg[r][0].src] = pass[r])

\* a rank in step 2 of the second pass has posted a labelling message for a
\* rank whose designated thread has not yet incremented pass
C32_Witness ==
    \E su \in PostedLabelling :
        /\ pass[su[1]] = 2
        /\ pass[out_msg[su[1]][su[2]].dst] = 1
        /\ \E t \in Threads : pc[out_msg[su[1]][su[2]].dst][t] = "s3_end"

-----------------------------------------------------------------------------
(* The baton of the backtrack *)

\* the threads in the loop of step 3
InLoop == { rt \in Ranks \X Threads : pc[rt[1]][rt[2]] \in {"s3_loop", "s3_upd"} }

\* the threads in the loop whose bt_idx is not -1
Holders == { rt \in InLoop : bt_idx[rt[1]][rt[2]] # NoIdx }

\* those of them that are not in the MPI_Ssend of UPDATE_FLOW, nor between
\* its return and bt_idx = -1
Backtrackers == { rt \in Holders : pc[rt[1]][rt[2]] = "s3_loop" }

\* the UPDATE_FLOW messages posted and not yet received
PostedUpdates ==
    { su \in Ranks \X Threads :
          out_msg[su[1]][su[2]] # NoMsg /\ out_msg[su[1]][su[2]].tag = UPDATE_FLOW }

\* the designated thread of the source's rank has processed the source and
\* left the loop
SourceProcessed ==
    \E t \in Threads :
        /\ pc[RankOf(source_id)][t] \in {"s3_src", "s3_mb2", "s3_end"}
        /\ bt_idx[RankOf(source_id)][t] = source_id

\* a SOURCE_FOUND is posted, or a thread has left the loop
SourceFoundOut ==
    \/ \E r \in Ranks, t \in Threads :
          out_msg[r][t] # NoMsg /\ out_msg[r][t].tag = SOURCE_FOUND
    \/ \E r \in Ranks, t \in Threads : pc[r][t] \in {"s3_src", "s3_mb2"}

\* C33 as stated: at most one thread in the loop has a bt_idx that is not -1,
\* at most one UPDATE_FLOW is in flight, and never both.
C33_OneHolder ==
    /\ Cardinality(Holders) <= 1
    /\ Cardinality(PostedUpdates) <= 1
    /\ Holders = {} \/ PostedUpdates = {}

\* C33 (single backtracking baton): the threads that backtrack (bt_idx not
\* -1 and not sending UPDATE_FLOW) and the UPDATE_FLOW messages in flight are
\* together at most one, and exactly one until the source is processed; every
\* thread in the loop is designated, and every one but the backtracker waits
\* in MPI_Recv or in the MPI_Ssend of its UPDATE_FLOW; SOURCE_FOUND is posted,
\* and the loop is left, only after the source's rank has processed the source.
C33_Baton ==
    /\ Cardinality(Backtrackers) + Cardinality(PostedUpdates) <= 1
    /\ (InLoop # {} /\ ~SourceProcessed) =>
           Cardinality(Backtrackers) + Cardinality(PostedUpdates) = 1
    /\ \A rt \in InLoop :
          /\ step_3_tid[rt[1]] = rt[2]
          /\ \A su \in InLoop : su[1] = rt[1] => su = rt
          /\ pc[rt[1]][rt[2]] = "s3_upd" =>
                 \/ out_msg[rt[1]][rt[2]] = NoMsg
                 \/ out_msg[rt[1]][rt[2]].tag = UPDATE_FLOW
    /\ SourceFoundOut => SourceProcessed

\* a thread has received the UPDATE_FLOW and holds the vertex while the
\* sender, back from MPI_Ssend, has not yet set its bt_idx to -1
C33_Witness ==
    \E rt \in Backtrackers, su \in Holders :
        /\ su[1] # rt[1]
        /\ pc[su[1]][su[2]] = "s3_upd"
        /\ out_msg[su[1]][su[2]] = NoMsg

-----------------------------------------------------------------------------
(* The tree of the back-pointers *)

\* following prev_node from v through labelled vertices reaches the source in
\* at most n hops
RECURSIVE ReachesSource(_, _)
ReachesSource(v, n) ==
    IF v = source_id THEN labels[v].value # 0
    ELSE IF n = 0 \/ labels[v].value = 0 THEN FALSE
    ELSE ReachesSource(labels[v].prev_node, n - 1)

\* the back-pointer of a labelled vertex names a vertex and its rank
PointsBack(v) ==
    /\ labels[v].prev_node \in Vertices
    /\ labels[v].prev_rank_loc = RankOf(labels[v].prev_node)
    /\ v # source_id => labels[v].prev_node # v

\* rank r is in step 2 or step 3 of a pass, before the MPI barrier that ends
\* step 3 opens
InPass(r) ==
    \E t \in Threads :
        \/ InStep2(r, t)
        \/ pc[r][t] = "bar3"
        \/ /\ step_3_tid[r] = t
           /\ pc[r][t] \in {"s3_gate", "s3_sf", "s3_flush", "s3_mb1",
                             "s3_loop", "s3_upd", "s3_src", "s3_mb2"}

\* a vertex gets its label in this step
Labelled(v) == labels[v].value = 0 /\ labels'[v].value # 0

=============================================================================
